---- MODULE Spec2Model ----
(***************************************************************************)
(* Verification model of code-typing-trainer.                              *)
(*                                                                         *)
(* Part 1: the strict typing engine (core/typingEngine.ts, bundled in      *)
(* src/src/core/metrics.ts): createTypingEngine, handleKey,                *)
(* handleBackspace, isComplete and their helpers.                          *)
(*                                                                         *)
(* Offsets are 0-based as in the source; TLA+ sequences are 1-based, so    *)
(* element i of a source array a is a[i + 1] here (see At / SetAt).        *)
(***************************************************************************)
EXTENDS Integers, Sequences, FiniteSets, TLC

VARIABLES
    state,   \* the TypingEngineState object the engine functions mutate
    call,    \* the last engine function called on it, with its argument
    page,    \* the refs of the Typing page around its engine (Part 2)
    pageLog, \* the last event the Typing page handled and its onComplete calls
    job,     \* a call of the text pipeline (Part 3): its arguments and result
    app      \* the App component: route, pending segmentation request (Part 4)

vars == <<state, call, page, pageLog, job, app>>

(***************************************************************************)
(* Bounds of the model.                                                    *)
(***************************************************************************)
MaxLen == 3          \* longest text
MaxSlack == 1        \* largest slackN passed to createTypingEngine
MaxKeystrokes == 4   \* handleKey / handleBackspace calls per engine

(***************************************************************************)
(* Characters, texts and inputs.                                           *)
(***************************************************************************)
NL == "\n"
SP == " "
TextChars == {"a", NL}
KeyChars == {"a", NL, SP}

RECURSIVE SeqsUpTo(_, _)
SeqsUpTo(S, n) ==
    IF n = 0 THEN {<<>>}
    ELSE LET shorter == SeqsUpTo(S, n - 1)
         IN  shorter \cup {Append(t, c) : t \in {u \in shorter : Len(u) = n - 1}, c \in S}

Texts == SeqsUpTo(TextChars, MaxLen)
\* ch of handleKey: the empty string or a one-character string
Keys == {<<>>} \cup {<<c>> : c \in KeyChars}
\* slackN of createTypingEngine (finite numbers; -1 exercises the clamp)
SlackInputs == -1 .. MaxSlack
\* skipRanges of createTypingEngine: none, one or two ranges, in any order,
\* possibly overlapping, empty, reversed or out of bounds
RawCoords == -1 .. (MaxLen + 1)
RawRanges == [start : RawCoords, end : RawCoords]
RawRangeLists ==
    {<<>>} \cup {<<r>> : r \in RawRanges} \cup {<<r, q>> : r \in RawRanges, q \in RawRanges}

Max(a, b) == IF a >= b THEN a ELSE b
Min(a, b) == IF a <= b THEN a ELSE b

At(seq, i) == seq[i + 1]
SetAt(seq, i, v) == [seq EXCEPT ![i + 1] = v]

(***************************************************************************)
(* enum Mark                                                               *)
(***************************************************************************)
UNTOUCHED == "UNTOUCHED"
CORRECT == "CORRECT"
INCORRECT == "INCORRECT"
COLLATERAL == "COLLATERAL"
Mark == {UNTOUCHED, CORRECT, INCORRECT, COLLATERAL}

(***************************************************************************)
(* normalizeRanges(ranges, max): clamp, drop empty, sort by (start, end),  *)
(* merge overlapping or touching ranges.                                   *)
(***************************************************************************)
ClampRange(r, max) ==
    [start |-> Max(0, Min(max, r.start)), end |-> Max(0, Min(max, r.end))]

RangeLess(a, b) == a.start < b.start \/ (a.start = b.start /\ a.end < b.end)

RECURSIVE InsertRange(_, _)
InsertRange(sorted, r) ==
    IF sorted = <<>> THEN <<r>>
    ELSE IF RangeLess(r, Head(sorted)) THEN <<r>> \o sorted
    ELSE <<Head(sorted)>> \o InsertRange(Tail(sorted), r)

RECURSIVE SortRanges(_)
SortRanges(rs) ==
    IF rs = <<>> THEN <<>>
    ELSE InsertRange(SortRanges(SubSeq(rs, 1, Len(rs) - 1)), rs[Len(rs)])

RECURSIVE MergeLoop(_, _, _, _)
MergeLoop(trimmed, i, current, merged) ==
    IF i > Len(trimmed) THEN Append(merged, current)
    ELSE LET next == trimmed[i]
         IN  IF next.start <= current.end
             THEN MergeLoop(trimmed, i + 1,
                            [start |-> current.start, end |-> Max(current.end, next.end)],
                            merged)
             ELSE MergeLoop(trimmed, i + 1, next, Append(merged, current))

normalizeRanges(ranges, max) ==
    IF Len(ranges) = 0 THEN <<>>
    ELSE LET clamped == [i \in 1 .. Len(ranges) |-> ClampRange(ranges[i], max)]
             trimmed == SortRanges(SelectSeq(clamped, LAMBDA r : r.end > r.start))
         IN  IF Len(trimmed) <= 1 THEN trimmed
             ELSE MergeLoop(trimmed, 2, trimmed[1], <<>>)

RECURSIVE sumRangeLengths(_)
sumRangeLengths(ranges) ==
    IF ranges = <<>> THEN 0
    ELSE Max(0, Head(ranges).end - Head(ranges).start) + sumRangeLengths(Tail(ranges))

(***************************************************************************)
(* findContainingRange(ranges, pos): binary search; the result is the      *)
(* range containing pos, or NoRange (null).                                *)
(***************************************************************************)
NoRange == [start |-> -1, end |-> -1]

\* mutant: the range start is excluded (pos <= r.start goes left)
RECURSIVE BinarySearch_StartExcluded(_, _, _, _)
BinarySearch_StartExcluded(ranges, pos, lo, hi) ==
    IF lo > hi THEN NoRange
    ELSE LET mid == (lo + hi) \div 2
             r == At(ranges, mid)
         IN  IF pos <= r.start THEN BinarySearch_StartExcluded(ranges, pos, lo, mid - 1)
             ELSE IF pos >= r.end THEN BinarySearch_StartExcluded(ranges, pos, mid + 1, hi)
             ELSE r

RECURSIVE BinarySearch(_, _, _, _)
BinarySearch(ranges, pos, lo, hi) ==
    IF lo > hi THEN NoRange
    ELSE LET mid == (lo + hi) \div 2
             r == At(ranges, mid)
         IN  IF pos < r.start THEN BinarySearch(ranges, pos, lo, mid - 1)
             ELSE IF pos >= r.end THEN BinarySearch(ranges, pos, mid + 1, hi)
             ELSE r

findContainingRange(ranges, pos) == BinarySearch(ranges, pos, 0, Len(ranges) - 1)

(***************************************************************************)
(* skipForwardIfNeeded(state): the cursor it leaves.                       *)
(***************************************************************************)
RECURSIVE SkipLoop(_, _, _)
SkipLoop(ranges, n, cursor) ==
    IF cursor < n
    THEN LET r == findContainingRange(ranges, cursor)
         IN  IF r = NoRange THEN cursor ELSE SkipLoop(ranges, n, r.end)
    ELSE cursor

\* mutant: the skip stops on the last position of the text
skipForwardIfNeeded_StopsBeforeEnd(s) ==
    IF Len(s.skipRanges) = 0 THEN s
    ELSE [s EXCEPT !.cursor = Min(SkipLoop(s.skipRanges, Len(s.text), s.cursor),
                                  Max(s.cursor, Len(s.text) - 1))]

skipForwardIfNeeded(s) ==
    IF Len(s.skipRanges) = 0 THEN s
    ELSE [s EXCEPT !.cursor = SkipLoop(s.skipRanges, Len(s.text), s.cursor)]

IsFinite(x) == x \in Int

(***************************************************************************)
(* computeUnproductivePercent: the quotient is kept as a fraction          *)
(* num / den with den > 0.                                                 *)
(***************************************************************************)
computeUnproductivePercent(typedKeystrokes, incorrect, collateral, backspaces) ==
    IF ~IsFinite(typedKeystrokes) \/ typedKeystrokes <= 0
    THEN [num |-> 0, den |-> 1]
    ELSE [num |-> (incorrect + collateral + backspaces) * 100, den |-> typedKeystrokes]

(***************************************************************************)
(* createTypingEngine                                                      *)
(***************************************************************************)
DefaultSlack == 3

\* mutant: the skipped characters are not taken off typeableChars
createTypingEngine_SkippedCounted(text, slackN, autoSkipBlankLines, skipRanges, allowWhitespaceAdvanceToNewline) ==
    LET slack == IF IsFinite(slackN) THEN Max(0, slackN) ELSE DefaultSlack
        ranges == normalizeRanges(skipRanges, Len(text))
    IN  skipForwardIfNeeded(
            [text |-> text,
             slackN |-> slack,
             autoSkipBlankLines |-> autoSkipBlankLines,
             allowWhitespaceAdvanceToNewline |-> allowWhitespaceAdvanceToNewline,
             skipRanges |-> ranges,
             cursor |-> 0,
             typedEnd |-> 0,
             errorActive |-> FALSE,
             firstErrorIndex |-> -1,
             firstErrorTypedProgress |-> -1,
             locked |-> FALSE,
             marks |-> [i \in 1 .. Len(text) |-> UNTOUCHED],
             countedCorrect |-> [i \in 1 .. Len(text) |-> FALSE],
             typedPositions |-> <<>>,
             typeableChars |-> Len(text),
             typedKeystrokes |-> 0,
             incorrect |-> 0,
             collateral |-> 0,
             backspaces |-> 0,
             correctChars |-> 0])

createTypingEngine(text, slackN, autoSkipBlankLines, skipRanges, allowWhitespaceAdvanceToNewline) ==
    LET slack == IF IsFinite(slackN) THEN Max(0, slackN) ELSE DefaultSlack
        ranges == normalizeRanges(skipRanges, Len(text))
        skippedChars == sumRangeLengths(ranges)
    IN  skipForwardIfNeeded(
            [text |-> text,
             slackN |-> slack,
             autoSkipBlankLines |-> autoSkipBlankLines,
             allowWhitespaceAdvanceToNewline |-> allowWhitespaceAdvanceToNewline,
             skipRanges |-> ranges,
             cursor |-> 0,
             typedEnd |-> 0,
             errorActive |-> FALSE,
             firstErrorIndex |-> -1,
             firstErrorTypedProgress |-> -1,
             locked |-> FALSE,
             marks |-> [i \in 1 .. Len(text) |-> UNTOUCHED],
             countedCorrect |-> [i \in 1 .. Len(text) |-> FALSE],
             typedPositions |-> <<>>,
             typeableChars |-> Max(0, Len(text) - skippedChars),
             typedKeystrokes |-> 0,
             incorrect |-> 0,
             collateral |-> 0,
             backspaces |-> 0,
             correctChars |-> 0])

isComplete(s) == s.cursor >= Len(s.text) /\ ~s.errorActive /\ ~s.locked

(***************************************************************************)
(* setMark(state, index, next, countCorrect)                               *)
(***************************************************************************)
\* mutant: a counted CORRECT that is overwritten is not taken back
setMark_NoDecrement(s, index, next, countCorrect) ==
    IF index < 0 \/ index >= Len(s.marks) THEN s
    ELSE LET prev == At(s.marks, index)
             prevCounted == At(s.countedCorrect, index) = TRUE
             prevWasCountedCorrect == prev = CORRECT /\ prevCounted
             nextWillCountCorrect == next = CORRECT /\ countCorrect
             delta == IF ~prevWasCountedCorrect /\ nextWillCountCorrect THEN 1 ELSE 0
         IN  [s EXCEPT !.correctChars = @ + delta,
                       !.marks = SetAt(@, index, next),
                       !.countedCorrect = SetAt(@, index, nextWillCountCorrect)]

setMark(s, index, next, countCorrect) ==
    IF index < 0 \/ index >= Len(s.marks) THEN s
    ELSE LET prev == At(s.marks, index)
             prevCounted == At(s.countedCorrect, index) = TRUE
             prevWasCountedCorrect == prev = CORRECT /\ prevCounted
             nextWillCountCorrect == next = CORRECT /\ countCorrect
             delta == (IF prevWasCountedCorrect /\ ~nextWillCountCorrect THEN -1 ELSE 0)
                      + (IF ~prevWasCountedCorrect /\ nextWillCountCorrect THEN 1 ELSE 0)
         IN  [s EXCEPT !.correctChars = @ + delta,
                       !.marks = SetAt(@, index, next),
                       !.countedCorrect = SetAt(@, index, nextWillCountCorrect)]

(***************************************************************************)
(* handleKey(state, ch)                                                    *)
(***************************************************************************)
\* the auto-skip walk: mark every immediately following newline CORRECT,
\* uncounted, and move the cursor past it
\* mutant: the auto-consumed newlines are counted as correct characters
RECURSIVE BlankLineWalk_Counted(_)
BlankLineWalk_Counted(s) ==
    IF s.cursor < Len(s.text) /\ At(s.text, s.cursor) = NL
    THEN BlankLineWalk_Counted([setMark(s, s.cursor, CORRECT, TRUE) EXCEPT !.cursor = @ + 1])
    ELSE s

\* mutant: the walk pushes the newlines it passes
RECURSIVE BlankLineWalk_Pushed(_)
BlankLineWalk_Pushed(s) ==
    IF s.cursor < Len(s.text) /\ At(s.text, s.cursor) = NL
    THEN BlankLineWalk_Pushed([setMark(s, s.cursor, CORRECT, FALSE) EXCEPT
                                  !.typedPositions = Append(@, s.cursor),
                                  !.cursor = @ + 1])
    ELSE s

RECURSIVE BlankLineWalk(_)
BlankLineWalk(s) ==
    IF s.cursor < Len(s.text) /\ At(s.text, s.cursor) = NL
    THEN BlankLineWalk([setMark(s, s.cursor, CORRECT, FALSE) EXCEPT !.cursor = @ + 1])
    ELSE s

\* mark the position under the cursor, push it and step the cursor past it
TypeAtCursor(s, mark, countCorrect) ==
    LET m == setMark(s, s.cursor, mark, countCorrect)
    IN  [m EXCEPT !.typedPositions = Append(@, s.cursor),
                  !.cursor = s.cursor + 1,
                  !.typedEnd = s.cursor + 1]

\* mutant: no skip-forward after a correct key
KeyCorrect_NoSkipForward(s, input, expected) ==
    LET isEnter == input = NL /\ expected = NL
    IN  IF isEnter /\ s.autoSkipBlankLines
        THEN LET walked == BlankLineWalk(TypeAtCursor(s, CORRECT, TRUE))
             IN  [walked EXCEPT !.typedEnd = walked.cursor]
        ELSE TypeAtCursor(s, CORRECT, TRUE)

KeyCorrect(s, input, expected) ==
    LET isEnter == input = NL /\ expected = NL
    IN  IF isEnter /\ s.autoSkipBlankLines
        THEN LET walked == BlankLineWalk(TypeAtCursor(s, CORRECT, TRUE))
             IN  skipForwardIfNeeded([walked EXCEPT !.typedEnd = walked.cursor])
        ELSE skipForwardIfNeeded(TypeAtCursor(s, CORRECT, TRUE))

\* mutant: the typed progress is read after the position was pushed
KeyMismatch_ProgressAfterPush(s) ==
    LET m == TypeAtCursor(s, INCORRECT, FALSE)
    IN  skipForwardIfNeeded(
            [m EXCEPT !.incorrect = @ + 1,
                      !.errorActive = TRUE,
                      !.firstErrorIndex = s.cursor,
                      !.firstErrorTypedProgress = Len(m.typedPositions)])

KeyMismatch(s) ==
    LET typedProgressBefore == Len(s.typedPositions)
        m == TypeAtCursor(s, INCORRECT, FALSE)
    IN  skipForwardIfNeeded(
            [m EXCEPT !.incorrect = @ + 1,
                      !.errorActive = TRUE,
                      !.firstErrorIndex = s.cursor,
                      !.firstErrorTypedProgress = typedProgressBefore])

\* mutant: the slack is measured in cursor offsets, not in typed positions
KeyDuringError_CursorDistance(s) ==
    LET typedDistance == s.cursor - s.firstErrorIndex
    IN  IF typedDistance <= s.slackN
        THEN skipForwardIfNeeded(
                 [TypeAtCursor(s, COLLATERAL, FALSE) EXCEPT !.collateral = @ + 1])
        ELSE [s EXCEPT !.locked = TRUE]

\* mutant: one more position is accepted before the lock
KeyDuringError_LocksLate(s) ==
    LET typedDistance == Len(s.typedPositions) - s.firstErrorTypedProgress
    IN  IF typedDistance <= s.slackN + 1
        THEN skipForwardIfNeeded(
                 [TypeAtCursor(s, COLLATERAL, FALSE) EXCEPT !.collateral = @ + 1])
        ELSE [s EXCEPT !.locked = TRUE]

KeyDuringError(s) ==
    LET typedDistance == IF s.firstErrorTypedProgress >= 0
                         THEN Len(s.typedPositions) - s.firstErrorTypedProgress
                         ELSE s.cursor - s.firstErrorIndex
    IN  IF typedDistance <= s.slackN
        THEN skipForwardIfNeeded(
                 [TypeAtCursor(s, COLLATERAL, FALSE) EXCEPT !.collateral = @ + 1])
        ELSE [s EXCEPT !.locked = TRUE]

\* mutant: the end-of-text check comes after the active-error branch
\* mutant: a space stands for the expected newline whatever the flag says
EffectiveInput_FlagIgnored(s, ch, expected) ==
    IF ~s.errorActive /\ Head(ch) = SP /\ expected = NL THEN NL ELSE Head(ch)

\* input: ch[0], or the newline a space stands for
EffectiveInput(s, ch, expected) ==
    IF ~s.errorActive
       /\ s.allowWhitespaceAdvanceToNewline
       /\ Head(ch) = SP /\ expected = NL
    THEN NL ELSE Head(ch)

KeyUnlocked_ErrorBeforeEndCheck(s1, ch) ==
    LET s == skipForwardIfNeeded(s1)
    IN  IF s.errorActive THEN KeyDuringError(s)
        ELSE IF s.cursor >= Len(s.text) THEN s
        ELSE LET expected == At(s.text, s.cursor)
                 input == IF s.allowWhitespaceAdvanceToNewline
                             /\ Head(ch) = SP /\ expected = NL
                          THEN NL ELSE Head(ch)
             IN  IF input = expected
                 THEN KeyCorrect(s, input, expected)
                 ELSE KeyMismatch(s)

\* handleKey past the locked check: skip forward, then match the input
KeyUnlocked(s1, ch) ==
    LET s == skipForwardIfNeeded(s1)
    IN  IF s.cursor >= Len(s.text) THEN s
        ELSE LET expected == At(s.text, s.cursor)
                 input == EffectiveInput(s, ch, expected)
             IN  IF ~s.errorActive
                 THEN IF input = expected
                      THEN KeyCorrect(s, input, expected)
                      ELSE KeyMismatch(s)
                 ELSE KeyDuringError(s)

\* mutant: the keystroke is counted after the locked check
handleKey_LockedNotCounted(s0, ch) ==
    IF Len(ch) = 0 THEN s0
    ELSE IF s0.locked THEN s0
    ELSE KeyUnlocked([s0 EXCEPT !.typedKeystrokes = @ + 1], ch)

handleKey(s0, ch) ==
    IF Len(ch) = 0 THEN s0
    ELSE LET s1 == [s0 EXCEPT !.typedKeystrokes = @ + 1]
         IN  IF s1.locked THEN s1 ELSE KeyUnlocked(s1, ch)

(***************************************************************************)
(* handleBackspace(state)                                                  *)
(***************************************************************************)
\* mutant: typedEnd is not moved back with the cursor
PopTypedPosition_KeepsTypedEnd(s) ==
    IF Len(s.typedPositions) > 0
    THEN LET last == s.typedPositions[Len(s.typedPositions)]
             popped == [s EXCEPT !.typedPositions = SubSeq(@, 1, Len(@) - 1),
                                 !.cursor = last]
         IN  setMark(popped, popped.cursor, UNTOUCHED, FALSE)
    ELSE s

\* mutant: the position is popped and unmarked but the cursor stays
PopTypedPosition_CursorStays(s) ==
    IF Len(s.typedPositions) > 0
    THEN LET last == s.typedPositions[Len(s.typedPositions)]
             popped == [s EXCEPT !.typedPositions = SubSeq(@, 1, Len(@) - 1)]
         IN  setMark(popped, last, UNTOUCHED, FALSE)
    ELSE s

\* typedPositions.pop(): back to the last typed position, which is unmarked
PopTypedPosition(s) ==
    IF Len(s.typedPositions) > 0
    THEN LET last == s.typedPositions[Len(s.typedPositions)]
             popped == [s EXCEPT !.typedPositions = SubSeq(@, 1, Len(@) - 1),
                                 !.cursor = last,
                                 !.typedEnd = last]
         IN  setMark(popped, popped.cursor, UNTOUCHED, FALSE)
    ELSE s

\* mutant: the error is cleared only strictly before the first error
ClearErrorIfBack_Strict(s) ==
    IF s.errorActive /\ s.cursor < s.firstErrorIndex
    THEN [s EXCEPT !.errorActive = FALSE,
                   !.firstErrorIndex = -1,
                   !.firstErrorTypedProgress = -1]
    ELSE s

\* the error ends once the cursor is back at (or before) the first error
ClearErrorIfBack(s) ==
    IF s.errorActive /\ s.cursor <= s.firstErrorIndex
    THEN [s EXCEPT !.errorActive = FALSE,
                   !.firstErrorIndex = -1,
                   !.firstErrorTypedProgress = -1]
    ELSE s

\* mutant: a backspace is not counted as a keystroke
handleBackspace_KeystrokeNotCounted(s0) ==
    ClearErrorIfBack(PopTypedPosition(
        [s0 EXCEPT !.backspaces = @ + 1,
                   !.locked = FALSE]))

\* mutant: the lock is not released
handleBackspace_KeepsLock(s0) ==
    ClearErrorIfBack(PopTypedPosition(
        [s0 EXCEPT !.typedKeystrokes = @ + 1,
                   !.backspaces = @ + 1]))

handleBackspace(s0) ==
    ClearErrorIfBack(PopTypedPosition(
        [s0 EXCEPT !.typedKeystrokes = @ + 1,
                   !.backspaces = @ + 1,
                   !.locked = FALSE]))

(***************************************************************************)
(* The engine as a state machine: one engine is created, then any          *)
(* sequence of handleKey and handleBackspace calls is applied to it.       *)
(* call records the last call: the function (op), its ch argument, the     *)
(* engine state it was applied to (pre), and whether every call so far was *)
(* a handleKey of the expected character text[cursor] (onlyExpected).      *)
(* pairs follows the calls as a sequence of (handleKey of the expected     *)
(* character, handleBackspace) pairs: "whole" after k >= 0 whole pairs,    *)
(* "half" after the key of a pair, "off" once the calls left that shape.   *)
(***************************************************************************)
\* the value of the variables of a part that a specification does not use
NoPage == "none"
NoJob == "none"

Init ==
    /\ \E text \in Texts, slackN \in SlackInputs, raw \in RawRangeLists,
          autoSkip \in BOOLEAN, allowWs \in BOOLEAN :
          state = createTypingEngine(text, slackN, autoSkip, raw, allowWs)
    /\ call = [op |-> "createTypingEngine", ch |-> <<>>, pre |-> state,
               onlyExpected |-> TRUE, pairs |-> "whole"]
    /\ page = NoPage
    /\ pageLog = NoPage
    /\ job = NoJob
    /\ app = NoPage

IsExpectedKey(s, ch) ==
    s.cursor < Len(s.text) /\ ch = <<At(s.text, s.cursor)>>

HandleKey ==
    \E ch \in Keys :
        /\ state.typedKeystrokes < MaxKeystrokes
        /\ state' = handleKey(state, ch)
        /\ call' = [op |-> "handleKey", ch |-> ch, pre |-> state,
                    onlyExpected |-> call.onlyExpected /\ IsExpectedKey(state, ch),
                    pairs |-> IF call.pairs = "whole" /\ IsExpectedKey(state, ch)
                              THEN "half" ELSE "off"]
        /\ UNCHANGED <<page, pageLog, job, app>>

HandleBackspace ==
    /\ state.typedKeystrokes < MaxKeystrokes
    /\ state' = handleBackspace(state)
    /\ call' = [op |-> "handleBackspace", ch |-> <<>>, pre |-> state,
                onlyExpected |-> FALSE,
                pairs |-> IF call.pairs = "half" THEN "whole" ELSE "off"]
    /\ UNCHANGED <<page, pageLog, job, app>>

Next == HandleKey \/ HandleBackspace

Spec == Init /\ [][Next]_vars

(***************************************************************************)
(* Vocabulary of the properties.                                           *)
(***************************************************************************)
pre == call.pre
N == Len(state.text)
\* a handleKey call with a character (the empty string returns at once)
KeyCall == call.op = "handleKey" /\ call.ch # <<>>
BackspaceCall == call.op = "handleBackspace"
InSkipRange(s, pos) == \E i \in 1 .. Len(s.skipRanges) :
                           s.skipRanges[i].start <= pos /\ pos < s.skipRanges[i].end
\* positions typed since (and including) the first error of s
TypedSinceError(s) == Len(s.typedPositions) - s.firstErrorTypedProgress

(***************************************************************************)
(* Properties of the typing engine.                                        *)
(***************************************************************************)

\* C1: in every engine state reachable from createTypingEngine by handleKey
\* and handleBackspace calls, 0 <= typedEnd <= cursor <= len(text).
C1_CursorBounds ==
    /\ 0 <= state.typedEnd
    /\ state.typedEnd <= state.cursor
    /\ state.cursor <= N

\* a key made the cursor jump over a skip range, so typedEnd < cursor, and a
\* backspace then took both back
C1_Witness ==
    /\ BackspaceCall
    /\ 0 < pre.typedEnd /\ pre.typedEnd < pre.cursor
    /\ state.cursor < pre.typedEnd

\* C2: after createTypingEngine and after every handleKey or
\* handleBackspace the cursor is not inside a skip range (unless it is at the
\* end of the text).
C2_CursorOutsideSkipRanges ==
    state.cursor < N => ~InSkipRange(state, state.cursor)

\* a key was typed just before a skip range and the cursor jumped to its end
C2_Witness ==
    /\ KeyCall
    /\ InSkipRange(state, pre.cursor + 1)
    /\ state.cursor > pre.cursor + 1
    /\ state.cursor < N

\* the call counted the keystroke and changed nothing else
OnlyCounted == state = [pre EXCEPT !.typedKeystrokes = @ + 1]

\* the call was accepted as COLLATERAL: it marked the position under the
\* cursor, pushed it, counted it and moved the cursor on
AcceptedAsCollateral ==
    /\ pre.cursor < N
    /\ At(state.marks, pre.cursor) = COLLATERAL
    /\ state.typedPositions = Append(pre.typedPositions, pre.cursor)
    /\ state.collateral = pre.collateral + 1
    /\ state.cursor > pre.cursor
    /\ ~state.locked

\* the call locked the engine and left cursor, marks and stack alone
LockedInPlace ==
    /\ state.locked
    /\ state.cursor = pre.cursor
    /\ state.marks = pre.marks
    /\ state.typedPositions = pre.typedPositions
    /\ state.collateral = pre.collateral

\* positions accepted as COLLATERAL since the first error of s
CollateralSinceError(s) == TypedSinceError(s) - 1

\* C3 as stated: after the first mismatch, every handleKey is accepted as
\* COLLATERAL until slackN of them were, and the next one locks; in typed
\* positions, whatever the cursor jumped over.
C3_Original ==
    (KeyCall /\ pre.errorActive /\ ~pre.locked) =>
        IF CollateralSinceError(pre) < pre.slackN
        THEN AcceptedAsCollateral
        ELSE LockedInPlace

\* C3 (amended): the same while the cursor is before the end of the text;
\* with an active error and the cursor at the end of the text a handleKey
\* only counts the keystroke: nothing is marked and the engine is not locked.
\* The mismatch that starts the error is typed position 1 of the error, and
\* never more than slackN positions are COLLATERAL.
C3_SlackThenLock ==
    /\ (KeyCall /\ ~pre.errorActive /\ state.errorActive) =>
           /\ CollateralSinceError(state) = 0
           /\ state.collateral = pre.collateral
    /\ state.errorActive =>
           /\ 0 <= CollateralSinceError(state)
           /\ CollateralSinceError(state) <= state.slackN
           /\ CollateralSinceError(state)
                  = Cardinality({i \in 1 .. N : state.marks[i] = COLLATERAL})
    /\ (KeyCall /\ pre.errorActive /\ ~pre.locked) =>
           IF pre.cursor >= N
           THEN OnlyCounted
           ELSE IF CollateralSinceError(pre) < pre.slackN
                THEN AcceptedAsCollateral
                ELSE LockedInPlace

\* slackN >= 1 keys were accepted as COLLATERAL and the next one locked
C3_Witness ==
    /\ KeyCall
    /\ pre.errorActive /\ ~pre.locked /\ state.locked
    /\ pre.slackN >= 1
    /\ CollateralSinceError(pre) = pre.slackN

\* C4: a handleKey (of a character) while locked adds 1 to typedKeystrokes
\* and leaves every other field of the state unchanged.
C4_LockedKeyOnlyCounted ==
    (KeyCall /\ pre.locked) => OnlyCounted

C4_Witness ==
    /\ KeyCall
    /\ pre.locked
    /\ state.typedKeystrokes = pre.typedKeystrokes + 1

\* C5: locked stays true across handleKey calls, only a handleBackspace
\* makes it false, and every handleBackspace leaves locked = FALSE.
C5_LockReleasedOnlyByBackspace ==
    [][/\ (state.locked /\ call'.op = "handleKey") => state'.locked
       /\ (state.locked /\ ~state'.locked) => call'.op = "handleBackspace"
       /\ (call'.op = "handleBackspace") => ~state'.locked]_vars

\* a backspace released a lock that had survived a handleKey
C5_Witness ==
    /\ BackspaceCall
    /\ pre.locked /\ ~state.locked
    /\ pre.typedKeystrokes > Len(pre.typedPositions) + 1

\* C6: with an error active, a handleBackspace that brings the cursor back
\* to firstErrorIndex clears errorActive, sets firstErrorIndex to -1 and
\* unmarks that position; one that leaves the cursor beyond firstErrorIndex
\* keeps errorActive and firstErrorIndex.
C6_BackspaceClearsErrorAtFirstError ==
    (BackspaceCall /\ pre.errorActive) =>
        IF state.cursor = pre.firstErrorIndex
        THEN /\ ~state.errorActive
             /\ state.firstErrorIndex = -1
             /\ At(state.marks, pre.firstErrorIndex) = UNTOUCHED
        ELSE /\ state.cursor > pre.firstErrorIndex
             /\ state.errorActive
             /\ state.firstErrorIndex = pre.firstErrorIndex

\* a backspace over a COLLATERAL position kept the error, the next one
\* reached the first error and cleared it
C6_Witness ==
    /\ BackspaceCall
    /\ pre.errorActive /\ ~state.errorActive
    /\ state.cursor = pre.firstErrorIndex
    /\ pre.backspaces >= 1
    /\ pre.collateral >= 1

\* C7: correctChars is the number of indices with countedCorrect true,
\* countedCorrect[i] implies marks[i] = CORRECT, and correctChars >= 0.
C7_CorrectCharsCountsCounted ==
    /\ state.correctChars = Cardinality({i \in 1 .. N : state.countedCorrect[i]})
    /\ \A i \in 1 .. N : state.countedCorrect[i] => state.marks[i] = CORRECT
    /\ state.correctChars >= 0

\* a backspace took back one of several counted CORRECT marks
C7_Witness ==
    /\ BackspaceCall
    /\ state.correctChars = pre.correctChars - 1
    /\ state.correctChars >= 1

\* offsets below limit that lie in no skip range: the typing target
Typeable(s, limit) == {i \in 0 .. limit - 1 : ~InSkipRange(s, i)}

\* C8: from a fresh engine with autoSkipBlankLines = FALSE, feeding
\* handleKey the expected character text[cursor] at every step makes the
\* engine complete after exactly typeableChars keystrokes, with incorrect =
\* collateral = backspaces = 0, correctChars = typedKeystrokes =
\* typeableChars and every non-skipped position CORRECT; skipped positions
\* cost no keystroke.
C8_AllExpectedCompletes ==
    (call.onlyExpected /\ ~state.autoSkipBlankLines) =>
        /\ state.incorrect = 0 /\ state.collateral = 0 /\ state.backspaces = 0
        /\ ~state.errorActive /\ ~state.locked
        /\ state.correctChars = state.typedKeystrokes
        /\ state.typedKeystrokes = Cardinality(Typeable(state, state.cursor))
        /\ state.typeableChars = Cardinality(Typeable(state, N))
        /\ isComplete(state) <=> state.typedKeystrokes = state.typeableChars
        /\ \A i \in 0 .. N - 1 :
               At(state.marks, i) =
                   IF i < state.cursor /\ ~InSkipRange(state, i) THEN CORRECT ELSE UNTOUCHED

\* a text with a skipped part was typed to completion
C8_Witness ==
    /\ call.onlyExpected /\ ~state.autoSkipBlankLines
    /\ KeyCall
    /\ isComplete(state)
    /\ state.typedKeystrokes >= 2
    /\ state.typeableChars < N
    /\ \E i \in 1 .. N : state.text[i] = NL /\ state.marks[i] = CORRECT

\* first offset at or after from that holds no newline (or len(text))
RECURSIVE NewlineRunEnd(_, _)
NewlineRunEnd(s, from) ==
    IF from < Len(s.text) /\ At(s.text, from) = NL THEN NewlineRunEnd(s, from + 1) ELSE from

\* first offset at or after from that is in no skip range (or len(text))
RECURSIVE FirstUnskipped(_, _)
FirstUnskipped(s, from) ==
    IF from < Len(s.text) /\ InSkipRange(s, from) THEN FirstUnskipped(s, from + 1) ELSE from

\* handleKey('\n') with autoSkipBlankLines, no active error, on a newline
EnterOnNewline ==
    /\ KeyCall /\ call.ch = <<NL>>
    /\ pre.autoSkipBlankLines
    /\ ~pre.errorActive
    /\ pre.cursor < N
    /\ At(pre.text, pre.cursor) = NL

\* C9: with autoSkipBlankLines and no active error, handleKey('\n') on a
\* newline adds 1 to typedKeystrokes and exactly 1 to correctChars however
\* many newlines follow, pushes only the pressed position, marks every
\* immediately following newline CORRECT with countedCorrect = FALSE, and
\* moves the cursor past all of them.
C9_EnterCollapsesNewlines ==
    EnterOnNewline =>
        LET runEnd == NewlineRunEnd(pre, pre.cursor)
        IN  /\ state.typedKeystrokes = pre.typedKeystrokes + 1
            /\ state.correctChars = pre.correctChars + 1
            /\ state.incorrect = pre.incorrect /\ state.collateral = pre.collateral
            /\ state.typedPositions = Append(pre.typedPositions, pre.cursor)
            /\ At(state.marks, pre.cursor) = CORRECT
            /\ At(state.countedCorrect, pre.cursor)
            /\ \A j \in pre.cursor + 1 .. runEnd - 1 :
                   At(state.marks, j) = CORRECT /\ ~At(state.countedCorrect, j)
            /\ \A j \in runEnd .. N - 1 :
                   At(state.marks, j) = At(pre.marks, j)
            /\ state.cursor = FirstUnskipped(state, runEnd)

\* Enter consumed two further newlines after an earlier key
C9_Witness ==
    /\ EnterOnNewline
    /\ NewlineRunEnd(pre, pre.cursor) >= pre.cursor + 2
    /\ state.cursor > pre.cursor + 1
    /\ state.correctChars = pre.correctChars + 1

\* a key that triggers the auto-skip walk: Enter on a newline, or a space
\* standing for it when allowWhitespaceAdvanceToNewline is set
WalkKey ==
    /\ KeyCall
    /\ pre.autoSkipBlankLines
    /\ ~pre.errorActive
    /\ pre.cursor < N
    /\ At(pre.text, pre.cursor) = NL
    /\ call.ch = <<NL>> \/ (call.ch = <<SP>> /\ pre.allowWhitespaceAdvanceToNewline)

\* any other key that typed a position
PlainTypedKey ==
    /\ KeyCall /\ ~WalkKey
    /\ Len(state.typedPositions) > Len(pre.typedPositions)

\* C10 as stated: after an Enter that triggers the auto-skip walk typedEnd
\* is the position reached by the newline the user pressed, the
\* auto-consumed newlines move the cursor but not typedEnd; and a skip-range
\* jump does not move typedEnd either.
C10_Original ==
    /\ WalkKey =>
           /\ state.typedEnd = pre.cursor + 1
           /\ NewlineRunEnd(pre, pre.cursor) > pre.cursor + 1 => state.typedEnd < state.cursor
    /\ PlainTypedKey => state.typedEnd = pre.cursor + 1

\* what handleKey does instead: typedEnd follows the cursor through the
\* auto-consumed newlines; only the skip-range jump leaves it behind
C10_TypedEndAfterNewlineRun ==
    /\ WalkKey => state.typedEnd = NewlineRunEnd(pre, pre.cursor)
    /\ PlainTypedKey => state.typedEnd = pre.cursor + 1

\* the handleKey call marked a position: correct, incorrect or collateral
MarkingKey == KeyCall /\ Len(state.typedPositions) > Len(pre.typedPositions)

\* C11 as stated: a handleBackspace after a handleKey that marked a
\* position gives back the cursor and the typedEnd of the state s the key
\* was typed in, and leaves marks[s.cursor] UNTOUCHED, also when the key
\* made the cursor jump over a skip range.
C11_Original ==
    MarkingKey =>
        LET undone == handleBackspace(state)
        IN  /\ undone.cursor = pre.cursor
            /\ undone.typedEnd = pre.typedEnd
            /\ At(undone.marks, pre.cursor) = UNTOUCHED

\* what handleBackspace does instead: typedEnd comes back as the cursor,
\* skip range before it included
C11_BackspaceRestoresCursor ==
    MarkingKey =>
        LET undone == handleBackspace(state)
        IN  /\ undone.cursor = pre.cursor
            /\ undone.typedEnd = pre.cursor
            /\ At(undone.marks, pre.cursor) = UNTOUCHED

\* C12 as stated: from a fresh engine, after k pairs of (handleKey of the
\* expected character, handleBackspace) every mark is UNTOUCHED again and
\* correctChars is back at its initial value, whatever the text, the skip
\* ranges and autoSkipBlankLines.
C12_Original ==
    call.pairs = "whole" =>
        /\ \A i \in 1 .. N : state.marks[i] = UNTOUCHED
        /\ state.correctChars = 0

\* what holds instead: correctChars is back, and the only marks left are the
\* uncounted CORRECT marks of newlines the auto-skip walk consumed
C12_PairsLeaveWalkMarks ==
    call.pairs = "whole" =>
        /\ state.correctChars = 0
        /\ \A i \in 1 .. N :
               \/ state.marks[i] = UNTOUCHED
               \/ /\ state.autoSkipBlankLines
                  /\ state.marks[i] = CORRECT /\ ~state.countedCorrect[i]
                  /\ state.text[i] = NL /\ i > state.cursor + 1

\* C13: a handleKey (of a character) with the cursor at or past the end of
\* the text adds 1 to typedKeystrokes and changes nothing else; a complete
\* engine stays complete under handleKey.
C13_KeyAtEndOnlyCounted ==
    /\ (KeyCall /\ pre.cursor >= N) => OnlyCounted
    /\ (call.op = "handleKey" /\ isComplete(pre)) => isComplete(state)

\* a key arrived at the end of a text with the error still active
C13_Witness ==
    /\ KeyCall
    /\ pre.cursor >= N /\ N >= 2
    /\ pre.errorActive
    /\ state.typedKeystrokes = pre.typedKeystrokes + 1

\* C22: while an error is active, firstErrorIndex is a position before the
\* cursor marked INCORRECT and typedPositions[firstErrorTypedProgress] is
\* that position; with no error active both are -1 and no position is
\* marked INCORRECT or COLLATERAL.
C22_ErrorBookkeeping ==
    IF state.errorActive
    THEN /\ 0 <= state.firstErrorIndex
         /\ state.firstErrorIndex < state.cursor
         /\ At(state.marks, state.firstErrorIndex) = INCORRECT
         /\ state.firstErrorTypedProgress >= 0
         /\ state.firstErrorTypedProgress < Len(state.typedPositions)
         /\ At(state.typedPositions, state.firstErrorTypedProgress) = state.firstErrorIndex
    ELSE /\ state.firstErrorIndex = -1
         /\ state.firstErrorTypedProgress = -1
         /\ \A i \in 1 .. N : state.marks[i] \notin {INCORRECT, COLLATERAL}

\* an error with a collateral position behind it was undone down to the
\* first error, one backspace at a time, and the last backspace cleared it
C22_Witness ==
    /\ BackspaceCall
    /\ pre.errorActive /\ ~state.errorActive
    /\ state.backspaces >= 2
    /\ state.collateral >= 1

\* C23: locked implies an active error, a cursor before the end of the
\* text and exactly slackN + 1 positions typed since the error began; while
\* an error is active that number never exceeds slackN + 1.
C23_LockAtSlackPlusOne ==
    /\ state.locked =>
          /\ state.errorActive
          /\ state.cursor < N
          /\ TypedSinceError(state) = state.slackN + 1
    /\ state.errorActive =>
          /\ TypedSinceError(state) >= 1
          /\ TypedSinceError(state) <= state.slackN + 1

\* a key locked the engine after the slack was used up by a collateral
\* position
C23_Witness ==
    /\ KeyCall
    /\ state.locked /\ ~pre.locked
    /\ state.slackN >= 1
    /\ state.collateral >= 1

OnStack(s) == {s.typedPositions[k] : k \in 1 .. Len(s.typedPositions)}

\* C24: typedPositions is strictly increasing; every entry is before the
\* cursor, outside every skip range and marked; every position marked
\* INCORRECT, COLLATERAL or counted as CORRECT is an entry; a key pushes at
\* most the position the cursor was on, so the positions the cursor passes
\* by a skip range or by the newline walk are not pushed.
C24_TypedPositionsStack ==
    /\ \A k \in 1 .. (Len(state.typedPositions) - 1) :
          state.typedPositions[k] < state.typedPositions[k + 1]
    /\ \A p \in OnStack(state) :
          /\ 0 <= p /\ p < state.cursor
          /\ ~InSkipRange(state, p)
          /\ At(state.marks, p) # UNTOUCHED
    /\ \A p \in 0 .. (N - 1) :
          (At(state.marks, p) \in {INCORRECT, COLLATERAL} \/ At(state.countedCorrect, p))
              => p \in OnStack(state)
    /\ KeyCall =>
          \/ state.typedPositions = pre.typedPositions
          \/ state.typedPositions = Append(pre.typedPositions, pre.cursor)

\* two keys typed the positions on either side of a skip range: two
\* entries with the skipped position between them
C24_Witness ==
    /\ KeyCall
    /\ Len(state.typedPositions) = 2
    /\ state.typedPositions[2] > state.typedPositions[1] + 1
    /\ state.skipRanges # <<>>

\* the skip ranges of s cover its whole text (so does the empty text)
WhollySkipped(s) == \A p \in 0 .. (Len(s.text) - 1) : InSkipRange(s, p)
Unmarked(s) == \A k \in 1 .. Len(s.text) : s.marks[k] = UNTOUCHED

\* C25: when the skip ranges cover the whole text, the engine is complete
\* right after createTypingEngine, with typeableChars = 0 and the cursor at
\* len(text), and a first handleKey marks nothing and records no error.
C25_WhollySkippedIsComplete ==
    WhollySkipped(state) =>
        /\ call.op = "createTypingEngine" =>
              /\ isComplete(state)
              /\ state.typeableChars = 0
              /\ state.cursor = N
        /\ (call.op = "handleKey" /\ pre.typedKeystrokes = 0) =>
              /\ Unmarked(state)
              /\ ~state.errorActive /\ ~state.locked
              /\ state.incorrect = 0 /\ state.collateral = 0 /\ state.correctChars = 0
              /\ state.typedPositions = <<>>
              /\ state.cursor = N
              /\ isComplete(state)

\* a key arrived first on a text of several characters wholly covered by
\* skip ranges
C25_Witness ==
    /\ KeyCall
    /\ pre.typedKeystrokes = 0 /\ state.typedKeystrokes = 1
    /\ WhollySkipped(state)
    /\ N >= 2

\* a space was keyed, with no error active, on a position that expects '\n'
SpaceOnNewline ==
    /\ KeyCall /\ call.ch = <<SP>>
    /\ ~pre.errorActive /\ ~pre.locked
    /\ pre.cursor < N /\ At(state.text, pre.cursor) = NL

\* C26: with allowWhitespaceAdvanceToNewline a space on an expected newline
\* does exactly what the newline key does (the position is CORRECT and
\* counted, nothing incorrect or collateral, the newline walk applied when
\* enabled); without the flag it is a mismatch that starts an error.
C26_SpaceAdvancesNewline ==
    SpaceOnNewline =>
        IF pre.allowWhitespaceAdvanceToNewline
        THEN /\ state = handleKey(pre, <<NL>>)
             /\ At(state.marks, pre.cursor) = CORRECT
             /\ At(state.countedCorrect, pre.cursor)
             /\ state.correctChars = pre.correctChars + 1
             /\ state.incorrect = pre.incorrect /\ state.collateral = pre.collateral
             /\ ~state.errorActive
             /\ state.cursor >= (IF pre.autoSkipBlankLines
                                 THEN NewlineRunEnd(pre, pre.cursor) ELSE pre.cursor + 1)
        ELSE /\ state.errorActive
             /\ state.firstErrorIndex = pre.cursor
             /\ At(state.marks, pre.cursor) = INCORRECT
             /\ state.incorrect = pre.incorrect + 1
             /\ state.correctChars = pre.correctChars

\* a space advanced over a run of two newlines with the walk enabled
C26_Witness ==
    /\ SpaceOnNewline
    /\ pre.allowWhitespaceAdvanceToNewline /\ pre.autoSkipBlankLines
    /\ state.cursor >= pre.cursor + 2
    /\ At(state.marks, pre.cursor + 1) = CORRECT

\* the unproductive percentage of the engine's counters
UnproductivePercent(s) ==
    computeUnproductivePercent(s.typedKeystrokes, s.incorrect, s.collateral, s.backspaces)

\* C38: correctChars + incorrect + collateral + backspaces never exceeds
\* typedKeystrokes; typedKeystrokes, incorrect, collateral and backspaces
\* never decrease, so the unproductive percentage lies in [0, 100];
\* handleKey never decreases correctChars and handleBackspace decreases it
\* by at most 1.
C38_CountersWithinKeystrokes ==
    /\ state.correctChars + state.incorrect + state.collateral + state.backspaces
           <= state.typedKeystrokes
    /\ state.typedKeystrokes >= pre.typedKeystrokes
    /\ state.incorrect >= pre.incorrect
    /\ state.collateral >= pre.collateral
    /\ state.backspaces >= pre.backspaces
    /\ 0 <= UnproductivePercent(state).num
    /\ UnproductivePercent(state).num <= 100 * UnproductivePercent(state).den
    /\ call.op = "handleKey" => state.correctChars >= pre.correctChars
    /\ BackspaceCall => state.correctChars >= pre.correctChars - 1

\* a backspace took back a counted correct character after an earlier
\* mismatch had been undone, which leaves the counters below the keystrokes
C38_Witness ==
    /\ BackspaceCall
    /\ state.correctChars = pre.correctChars - 1
    /\ state.incorrect > 0 /\ state.backspaces > 1
    /\ state.correctChars + state.incorrect + state.collateral + state.backspaces
           < state.typedKeystrokes

\* the newlines the auto-skip walk consumed: marked CORRECT without having
\* been typed
AutoConsumed(s) ==
    {p \in 0 .. (Len(s.text) - 1) :
        At(s.text, p) = NL /\ At(s.marks, p) = CORRECT /\ p \notin OnStack(s)}

\* C39: correctChars never exceeds typeableChars; a complete engine with
\* autoSkipBlankLines=false has correctChars = typeableChars, and a complete
\* engine with autoSkipBlankLines=true has correctChars = typeableChars minus
\* the number of auto-consumed newlines.
C39_Original ==
    /\ state.correctChars <= state.typeableChars
    /\ isComplete(state) /\ ~state.autoSkipBlankLines
           => state.correctChars = state.typeableChars
    /\ isComplete(state) /\ state.autoSkipBlankLines
           => state.correctChars = state.typeableChars - Cardinality(AutoConsumed(state))

\* C39 (amended): correctChars never exceeds typeableChars; a complete
\* engine with autoSkipBlankLines=false has correctChars = typeableChars, and
\* a complete engine with autoSkipBlankLines=true has correctChars =
\* typeableChars minus the number of auto-consumed newlines that lie outside
\* the skip ranges (a walked newline inside a skip range was never part of
\* typeableChars).
C39_CorrectCharsVsTypeable ==
    /\ state.correctChars <= state.typeableChars
    /\ isComplete(state) /\ ~state.autoSkipBlankLines
           => state.correctChars = state.typeableChars
    /\ isComplete(state) /\ state.autoSkipBlankLines
           => state.correctChars = state.typeableChars
                  - Cardinality({p \in AutoConsumed(state) : ~InSkipRange(state, p)})

\* a complete engine with auto-skip whose walk consumed one newline inside a
\* skip range and one outside, after a backspace on the way
C39_Witness ==
    /\ isComplete(state) /\ state.autoSkipBlankLines
    /\ state.backspaces > 0
    /\ \E p \in AutoConsumed(state) : InSkipRange(state, p)
    /\ \E p \in AutoConsumed(state) : ~InSkipRange(state, p)

\* handleBackspace applied n times
RECURSIVE Backspaces(_, _)
Backspaces(s, n) == IF n = 0 THEN s ELSE Backspaces(handleBackspace(s), n - 1)

\* handleKey of the expected character text[cursor], applied until the
\* cursor is at the end of the text or n keys were typed
RECURSIVE TypeExpected(_, _)
TypeExpected(s, n) ==
    IF n = 0 \/ s.cursor >= Len(s.text) THEN s
    ELSE TypeExpected(handleKey(s, <<At(s.text, s.cursor)>>), n - 1)

\* the state after as many backspaces as typedPositions has entries
Rewound(s) == Backspaces(s, Len(s.typedPositions))
\* the cursor createTypingEngine leaves: the first offset outside the skip
\* ranges
InitialCursor(s) == skipForwardIfNeeded([s EXCEPT !.cursor = 0]).cursor

\* C40: from every reachable state, as many handleBackspace calls as
\* typedPositions has entries empty typedPositions and leave
\* errorActive=false, locked=false, correctChars=0 and the cursor at its
\* initial post-skip position; typing the expected characters from there
\* reaches isComplete within len(text) keys.
C40_NeverStuck ==
    LET r == Rewound(state)
    IN  /\ r.typedPositions = <<>>
        /\ ~r.errorActive /\ ~r.locked
        /\ r.correctChars = 0
        /\ r.cursor = InitialCursor(state)
        /\ isComplete(TypeExpected(r, Len(state.text)))

\* a locked engine with a correct character and the error on the stack, and
\* text left to type after the rewind
C40_Witness ==
    /\ state.locked /\ state.errorActive
    /\ Len(state.typedPositions) >= 2
    /\ state.correctChars >= 1
    /\ ~isComplete(Rewound(state))

(***************************************************************************)
(* Part 2: the Typing page around one engine (pages/Typing.tsx,            *)
(* src/unnamed/part_007): engineRef is the variable state; page holds      *)
(* completedRef, commitRafRef (a commit frame is pending), startAtRef and  *)
(* autoSkipRef. Events are handled one at a time (one JavaScript thread).  *)
(* The page is modelled as staying mounted after onComplete, so events     *)
(* keep arriving. Date.now() is any value of Times, monotonic or not.      *)
(*                                                                         *)
(* pageLog records the kind of the last event the page handled ("input"    *)
(* for a key, Backspace or committed text, "onComplete" for the commit     *)
(* frame that called onComplete, "other" otherwise), the number of         *)
(* onComplete calls made for the current engine instance, and the Attempt  *)
(* passed to onComplete when the last event was that call.                 *)
(***************************************************************************)
MaxPageLen == 2      \* longest segment text of the page
MaxTime == 1         \* largest value of Date.now()
MaxTabWidth == 2     \* largest settings.tabWidth
MaxCommitLen == 2    \* longest text committed by one input event

\* startAtRef is Null or <<t>> for a time t
Null == <<>>
Times == 0 .. MaxTime
PageTexts == SeqsUpTo(TextChars, MaxPageLen)
\* engineSkipRanges of buildSkipInfo(): none or one range inside the text
PageSkipRanges(text) ==
    {<<>>} \cup {<<[start |-> a, end |-> b]>> : a \in {0}, b \in 1 .. Len(text)}
         \cup {<<[start |-> a, end |-> Len(text)]>> : a \in 1 .. (Len(text) - 1)}
CommittedTexts == SeqsUpTo(KeyChars, MaxCommitLen) \ {<<>>}
TabWidths == 0 .. MaxTabWidth
NoAttempt == [none |-> TRUE]

\* for (i < text.length) handleKey(engineRef.current, text[i])
RECURSIVE HandleKeys(_, _)
HandleKeys(s, text) ==
    IF text = <<>> THEN s ELSE HandleKeys(handleKey(s, <<Head(text)>>), Tail(text))

\* ensureStarted(): startAtRef is set on the first event that reaches it
ensureStarted(pg, now) ==
    IF pg.startAtRef = Null THEN [pg EXCEPT !.startAtRef = <<now>>] ELSE pg

\* scheduleCommit(): one commit frame at most is pending
scheduleCommit(pg) == [pg EXCEPT !.commitRaf = TRUE]

\* the Attempt maybeComplete builds (the fields taken from the engine and
\* the clock)
BuildAttempt(engine, startAtRef, endAtMs) ==
    LET startAtMs == IF startAtRef = Null THEN endAtMs ELSE startAtRef[1]
    IN  [typeableChars |-> engine.typeableChars,
         typedKeystrokes |-> engine.typedKeystrokes,
         incorrect |-> engine.incorrect,
         collateral |-> engine.collateral,
         backspaces |-> engine.backspaces,
         correctChars |-> engine.correctChars,
         startAtMs |-> startAtMs,
         endAtMs |-> endAtMs,
         durationMs |-> Max(0, endAtMs - startAtMs)]

\* maybeComplete(): whether it calls onComplete (a segment is shown)
CallsOnComplete_NoCompletedRef(pg, engine) == isComplete(engine)

CallsOnComplete(pg, engine) == ~pg.completedRef /\ isComplete(engine)

\* resetEngine(): a new engine instance; runs on mount and when the segment
\* text, settings.slackN or settings.includeComments change
ResetEngine ==
    \E text \in PageTexts, slackN \in 0 .. MaxSlack, includeComments \in BOOLEAN :
      \E ranges \in PageSkipRanges(text) :
        /\ state' = createTypingEngine(text, slackN, page.autoSkipRef, ranges, ~includeComments)
        /\ page' = scheduleCommit([page EXCEPT !.completedRef = FALSE, !.commitRaf = FALSE,
                                               !.startAtRef = Null])
        /\ pageLog' = [event |-> "other", onCompleteCalls |-> 0, attempt |-> NoAttempt]
        /\ UNCHANGED <<call, job, app>>

PageInit ==
    /\ \E text \in PageTexts, slackN \in 0 .. MaxSlack, includeComments \in BOOLEAN,
          autoSkip \in BOOLEAN :
         \E ranges \in PageSkipRanges(text) :
          /\ state = createTypingEngine(text, slackN, autoSkip, ranges, ~includeComments)
          /\ page = [completedRef |-> FALSE, commitRaf |-> TRUE, startAtRef |-> Null,
                     autoSkipRef |-> autoSkip]
    /\ pageLog = [event |-> "other", onCompleteCalls |-> 0, attempt |-> NoAttempt]
    /\ call = NoPage
    /\ job = NoJob
    /\ app = NoPage

\* an input event that applies its keys to the engine unless the engine is
\* complete
InputEvent(after) ==
    /\ state.typedKeystrokes < MaxKeystrokes
    /\ IF isComplete(state)
       THEN UNCHANGED <<state, page>>
       ELSE /\ state' = after
            /\ \E now \in Times : page' = scheduleCommit(ensureStarted(page, now))
    /\ pageLog' = [pageLog EXCEPT !.event = "input", !.attempt = NoAttempt]
    /\ UNCHANGED <<call, job, app>>

\* handleKeyDown, e.key === 'Backspace'
KeyDownBackspace == InputEvent(handleBackspace(state))

\* handleKeyDown, e.key === 'Enter'
KeyDownEnter == InputEvent(handleKey(state, <<NL>>))

\* handleKeyDown, e.key === 'Tab': tabWidth spaces
KeyDownTab ==
    \E tabWidth \in TabWidths :
        InputEvent(HandleKeys(state, [i \in 1 .. tabWidth |-> SP]))

\* processCommittedText(text), from handleInput or handleCompositionEnd
ProcessCommittedText ==
    \E text \in CommittedTexts : InputEvent(HandleKeys(state, text))

\* the effect on settings.autoSkipBlankLines
SetAutoSkip ==
    \E autoSkip \in BOOLEAN :
        /\ state' = [state EXCEPT !.autoSkipBlankLines = autoSkip]
        /\ page' = [page EXCEPT !.autoSkipRef = autoSkip]
        /\ pageLog' = [pageLog EXCEPT !.event = "other", !.attempt = NoAttempt]
        /\ UNCHANGED <<call, job, app>>

\* onMount of the editor: it ends with scheduleCommit()
OnMount ==
    /\ page' = scheduleCommit(page)
    /\ pageLog' = [pageLog EXCEPT !.event = "other", !.attempt = NoAttempt]
    /\ UNCHANGED <<state, call, job, app>>

\* the requestAnimationFrame callback of scheduleCommit: maybeComplete()
CommitFrame ==
    /\ page.commitRaf
    /\ \E endAtMs \in Times :
          IF CallsOnComplete(page, state)
          THEN /\ page' = [page EXCEPT !.commitRaf = FALSE, !.completedRef = TRUE]
               /\ pageLog' = [event |-> "onComplete",
                              onCompleteCalls |-> pageLog.onCompleteCalls + 1,
                              attempt |-> BuildAttempt(state, page.startAtRef, endAtMs)]
          ELSE /\ page' = [page EXCEPT !.commitRaf = FALSE]
               /\ pageLog' = [pageLog EXCEPT !.event = "other", !.attempt = NoAttempt]
    /\ UNCHANGED <<state, call, job, app>>

PageNext ==
    \/ ResetEngine
    \/ KeyDownBackspace
    \/ KeyDownEnter
    \/ KeyDownTab
    \/ ProcessCommittedText
    \/ SetAutoSkip
    \/ OnMount
    \/ CommitFrame

PageSpec == PageInit /\ [][PageNext]_vars

(***************************************************************************)
(* Vocabulary of the page claims.                                          *)
(***************************************************************************)
OnCompleteCalled == pageLog.event = "onComplete"
\* an input event arrived after onComplete was called for this engine
LateInput == pageLog.event = "input" /\ pageLog.onCompleteCalls > 0
AttemptOf(engine, a) ==
    /\ a.typeableChars = engine.typeableChars
    /\ a.typedKeystrokes = engine.typedKeystrokes
    /\ a.incorrect = engine.incorrect
    /\ a.collateral = engine.collateral
    /\ a.backspaces = engine.backspaces
    /\ a.correctChars = engine.correctChars
    /\ a.durationMs = Max(0, a.endAtMs - a.startAtMs)

\* C14: for one engine instance the page calls onComplete at most once and
\* only when isComplete(engine) holds, the Attempt carries the counters of
\* that engine with durationMs = max(0, endAtMs - startAtMs), and an input
\* event that arrives when the engine is complete leaves the engine as it is.
C14_OnCompleteOnce ==
    [][/\ pageLog'.onCompleteCalls <= 1
       /\ OnCompleteCalled' =>
             /\ pageLog'.onCompleteCalls = 1
             /\ isComplete(state')
             /\ AttemptOf(state', pageLog'.attempt)
       /\ (pageLog'.event = "input" /\ isComplete(state)) => state' = state
      ]_vars

\* onComplete was called after typing, the editor mounted again, its commit
\* frame ran, and then a key arrived
C14_Witness ==
    /\ LateInput
    /\ state.typedKeystrokes > 0
    /\ state.backspaces > 0
    /\ ~page.commitRaf
    /\ page.completedRef

(***************************************************************************)
(* Part 3: the text pipeline of the segmenter worker (core/segmenter.ts,   *)
(* src/src/core/segmenter.ts). Strings are sequences of one-character      *)
(* strings; offsets and line indices are 0-based as in the source, line    *)
(* numbers 1-based. job holds one call: its arguments, and its result once *)
(* the call has returned.                                                  *)
(***************************************************************************)
MaxSegLen == 6        \* longest normalized string given to the segmenter
MaxLinesPer == 3      \* largest linesPerSegment
MaxSegChars == 3      \* largest maxSegmentChars

\* s.slice(a, b) for 0 <= a
Slice(s, a, b) == SubSeq(s, a + 1, Min(b, Len(s)))

\* normalized.split('\n'): the lines, without their line breaks
RECURSIVE SplitLoop(_, _, _)
SplitLoop(s, lines, line) ==
    IF s = <<>> THEN Append(lines, line)
    ELSE IF Head(s) = NL THEN SplitLoop(Tail(s), Append(lines, line), <<>>)
    ELSE SplitLoop(Tail(s), lines, Append(line, Head(s)))

SplitLines(s) == SplitLoop(s, <<>>, <<>>)

\* lineStartOffsets[i], i 0-based
RECURSIVE lineStartOffset_NoLineBreak(_, _)
lineStartOffset_NoLineBreak(lines, i) ==
    IF i = 0 THEN 0 ELSE lineStartOffset_NoLineBreak(lines, i - 1) + Len(At(lines, i - 1))

RECURSIVE lineStartOffset(_, _)
lineStartOffset(lines, i) ==
    IF i = 0 THEN 0 ELSE lineStartOffset(lines, i - 1) + Len(At(lines, i - 1)) + 1

\* per and charLimit; NoCharLimit stands for Number.POSITIVE_INFINITY
NoCharLimit == 0
PerOf(linesPerSegment) == Max(1, linesPerSegment)
CharLimitOf(maxSegmentChars) ==
    IF maxSegmentChars > 0 THEN Max(1, maxSegmentChars) ELSE NoCharLimit
ExceedsCharLimit(n, charLimit) == charLimit # NoCharLimit /\ n > charLimit

\* pushSegment(endLine) on the loop variables st
\* mutant: the next segment starts on the line the pushed one ends on
pushSegment_StartsOnEndLine(normalized, lines, st, endLine) ==
    LET startOffset == lineStartOffset(lines, st.segmentStartLine - 1)
        endOffset == lineStartOffset(lines, endLine - 1) + Len(At(lines, endLine - 1))
    IN  [st EXCEPT
            !.segments = Append(@, [index |-> st.index,
                                    startLine |-> st.segmentStartLine,
                                    endLine |-> endLine,
                                    text |-> Slice(normalized, startOffset, endOffset),
                                    startOffset |-> startOffset,
                                    endOffset |-> endOffset]),
            !.index = @ + 1,
            !.segmentStartLine = Max(1, endLine),
            !.currentLinesCount = 0,
            !.currentChars = 0]

pushSegment(normalized, lines, st, endLine) ==
    LET startOffset == lineStartOffset(lines, st.segmentStartLine - 1)
        endOffset == lineStartOffset(lines, endLine - 1) + Len(At(lines, endLine - 1))
    IN  [st EXCEPT
            !.segments = Append(@, [index |-> st.index,
                                    startLine |-> st.segmentStartLine,
                                    endLine |-> endLine,
                                    text |-> Slice(normalized, startOffset, endOffset),
                                    startOffset |-> startOffset,
                                    endOffset |-> endOffset]),
            !.index = @ + 1,
            !.segmentStartLine = endLine + 1,
            !.currentLinesCount = 0,
            !.currentChars = 0]

\* the slices of one oversize line: for (offset = 0; offset < line.length;
\* offset += charLimit)
SliceLine_WholeLine(line, lineNumber, lineStart, charLimit, offset, st) ==
    [st EXCEPT
        !.segments = Append(@, [index |-> st.index,
                                startLine |-> lineNumber,
                                endLine |-> lineNumber,
                                text |-> line,
                                startOffset |-> lineStart,
                                endOffset |-> lineStart + Len(line)]),
        !.index = @ + 1]

RECURSIVE SliceLine(_, _, _, _, _, _)
SliceLine(line, lineNumber, lineStart, charLimit, offset, st) ==
    IF offset >= Len(line) THEN st
    ELSE LET slice == Slice(line, offset, offset + charLimit)
         IN  SliceLine(line, lineNumber, lineStart, charLimit, offset + charLimit,
                 [st EXCEPT
                     !.segments = Append(@, [index |-> st.index,
                                             startLine |-> lineNumber,
                                             endLine |-> lineNumber,
                                             text |-> slice,
                                             startOffset |-> lineStart + offset,
                                             endOffset |-> lineStart + offset + Len(slice)]),
                     !.index = @ + 1])

\* extraChars: what the line adds to the pending segment, with the line
\* break in front of it when it is not the first line
ExtraChars_NoLineBreak(currentLinesCount, lineChars) == lineChars

ExtraChars(currentLinesCount, lineChars) ==
    IF currentLinesCount = 0 THEN lineChars ELSE 1 + lineChars

\* one iteration of the loop over the lines
SegmentLine(normalized, lines, per, charLimit, lineIndex, st) ==
    LET lineNumber == lineIndex + 1
        line == At(lines, lineIndex)
        lineChars == Len(line)
        extraChars == ExtraChars(st.currentLinesCount, lineChars)
        wouldExceedLines == st.currentLinesCount >= per
        wouldExceedChars == ExceedsCharLimit(st.currentChars + extraChars, charLimit)
        st1 == IF st.currentLinesCount > 0 /\ (wouldExceedLines \/ wouldExceedChars)
               THEN pushSegment(normalized, lines, st, lineNumber - 1)
               ELSE st
    IN  IF ExceedsCharLimit(lineChars, charLimit)
        THEN LET st2 == IF st1.currentLinesCount > 0
                        THEN pushSegment(normalized, lines, st1, lineNumber - 1)
                        ELSE st1
                 st3 == SliceLine(line, lineNumber, lineStartOffset(lines, lineIndex),
                                  charLimit, 0, st2)
             IN  [st3 EXCEPT !.segmentStartLine = lineNumber + 1,
                             !.currentLinesCount = 0,
                             !.currentChars = 0]
        ELSE LET st4 == [st1 EXCEPT !.currentLinesCount = @ + 1,
                                    !.currentChars = @ + extraChars]
             IN  IF st4.currentLinesCount >= per
                 THEN pushSegment(normalized, lines, st4, lineNumber)
                 ELSE st4

RECURSIVE SegmentLoop(_, _, _, _, _, _)
SegmentLoop(normalized, lines, per, charLimit, lineIndex, st) ==
    IF lineIndex >= Len(lines) THEN st
    ELSE SegmentLoop(normalized, lines, per, charLimit, lineIndex + 1,
                     SegmentLine(normalized, lines, per, charLimit, lineIndex, st))

splitNormalizedByLinesWithOffsets(normalized, linesPerSegment, maxSegmentChars) ==
    LET lines == SplitLines(normalized)
        st0 == [segments |-> <<>>, index |-> 0, segmentStartLine |-> 1,
                currentLinesCount |-> 0, currentChars |-> 0]
        st == SegmentLoop(normalized, lines, PerOf(linesPerSegment),
                          CharLimitOf(maxSegmentChars), 0, st0)
    IN  IF st.currentLinesCount > 0
        THEN pushSegment(normalized, lines, st, Len(lines)).segments
        ELSE st.segments

(***************************************************************************)
(* The segmenter as a state machine: a call with its arguments, then its   *)
(* return.                                                                 *)
(***************************************************************************)
NormalizedTexts == SeqsUpTo(TextChars, MaxSegLen)
\* linesPerSegment (0 exercises the clamp to 1)
LinesPerInputs == 0 .. MaxLinesPer
\* maxSegmentChars (0: no character limit)
SegCharsInputs == 0 .. MaxSegChars

SegInit ==
    /\ \E normalized \in NormalizedTexts, linesPerSegment \in LinesPerInputs,
          maxSegmentChars \in SegCharsInputs :
          job = [op |-> "splitNormalizedByLinesWithOffsets", returned |-> FALSE,
                 normalized |-> normalized, linesPerSegment |-> linesPerSegment,
                 maxSegmentChars |-> maxSegmentChars, segments |-> <<>>]
    /\ state = NoPage
    /\ call = NoPage
    /\ page = NoPage
    /\ pageLog = NoPage
    /\ app = NoPage

SplitNormalized ==
    /\ ~job.returned
    /\ job' = [job EXCEPT !.returned = TRUE,
                          !.segments = splitNormalizedByLinesWithOffsets(
                              job.normalized, job.linesPerSegment, job.maxSegmentChars)]
    /\ UNCHANGED <<state, call, page, pageLog, app>>

SegNext == SplitNormalized

SegSpec == SegInit /\ [][SegNext]_vars

(***************************************************************************)
(* Vocabulary of the segmenter claims.                                     *)
(***************************************************************************)
Segs == job.segments
NSegs == Len(job.segments)
RECURSIVE SumTextLengths(_)
SumTextLengths(segs) ==
    IF segs = <<>> THEN 0 ELSE Len(Head(segs).text) + SumTextLengths(Tail(segs))
\* the characters of the normalized string between two consecutive segments
GapAfter(i) == Slice(job.normalized, Segs[i].endOffset, Segs[i + 1].startOffset)
\* segments i and i + 1 are slices of one line
SlicesOfOneLine(i) ==
    /\ Segs[i].startLine = Segs[i].endLine
    /\ Segs[i + 1].startLine = Segs[i].startLine
    /\ Segs[i + 1].endLine = Segs[i].startLine
ConsumedLineBreaks == Cardinality({i \in 1 .. (NSegs - 1) : GapAfter(i) = <<NL>>})

\* C15: the segments tile the normalized string: the first starts at 0, the
\* last ends at its length, each text is normalized[startOffset:endOffset],
\* consecutive segments are separated by nothing (slices of one oversize
\* line) or by exactly one line break, and the text lengths plus the line
\* breaks consumed between segments add up to the length.
C15_SegmentsTile ==
    job.returned =>
        /\ NSegs >= 1
        /\ Segs[1].startOffset = 0
        /\ Segs[NSegs].endOffset = Len(job.normalized)
        /\ \A i \in 1 .. NSegs :
              /\ 0 <= Segs[i].startOffset /\ Segs[i].startOffset <= Segs[i].endOffset
              /\ Segs[i].text = Slice(job.normalized, Segs[i].startOffset, Segs[i].endOffset)
              /\ Segs[i].index = i - 1
        /\ \A i \in 1 .. (NSegs - 1) :
              /\ Segs[i].endOffset <= Segs[i + 1].startOffset
              /\ IF SlicesOfOneLine(i) THEN GapAfter(i) = <<>> ELSE GapAfter(i) = <<NL>>
        /\ SumTextLengths(Segs) + ConsumedLineBreaks = Len(job.normalized)

\* a text of several lines with an oversize line in the middle was split:
\* both kinds of gap occur
C15_Witness ==
    /\ job.returned
    /\ NSegs >= 4
    /\ \E i \in 1 .. (NSegs - 1) : SlicesOfOneLine(i) /\ GapAfter(i) = <<>>
    /\ \E i \in 1 .. (NSegs - 1) : ~SlicesOfOneLine(i) /\ GapAfter(i) = <<NL>>
    /\ \E i \in 1 .. NSegs : Segs[i].endLine > Segs[i].startLine

\* C16: with linesPerSegment >= 1 and a finite maxSegmentChars >= 1, every
\* segment spans at most linesPerSegment lines and its text has at most
\* maxSegmentChars characters.
C16_SegmentWithinLimits ==
    (job.returned /\ job.linesPerSegment >= 1 /\ job.maxSegmentChars >= 1) =>
        \A i \in 1 .. NSegs :
            /\ Segs[i].endLine - Segs[i].startLine + 1 <= job.linesPerSegment
            /\ Segs[i].endLine >= Segs[i].startLine
            /\ Len(Segs[i].text) <= job.maxSegmentChars

\* a segment of several lines that fills the character limit exactly and
\* was cut by it, not by the line limit
C16_Witness ==
    /\ job.returned /\ job.linesPerSegment >= 2 /\ job.maxSegmentChars >= 1
    /\ NSegs >= 2
    /\ \E i \in 1 .. NSegs :
          /\ Segs[i].endLine > Segs[i].startLine
          /\ Len(Segs[i].text) = job.maxSegmentChars
          /\ Segs[i].endLine - Segs[i].startLine + 1 < job.linesPerSegment

Ceil(a, b) == (a + b - 1) \div b
\* the positions in the result of the segments that lie on line n only
SlicesOfLine(n) == {i \in 1 .. NSegs : Segs[i].startLine = n /\ Segs[i].endLine = n}
OversizeLines ==
    {n \in 1 .. Len(SplitLines(job.normalized)) :
        Len(SplitLines(job.normalized)[n]) > job.maxSegmentChars}

\* C17: a line longer than maxSegmentChars comes out as ceil(len / cap)
\* consecutive segments on that line alone, each of exactly cap characters
\* except possibly the last, in order; no other segment contains the line:
\* the segment before the slices ends on the line before, the one after
\* starts on the line after.
C17_OversizeLineSliced ==
    (job.returned /\ job.maxSegmentChars >= 1) =>
        \A n \in OversizeLines :
            LET line == SplitLines(job.normalized)[n]
                cap == job.maxSegmentChars
                count == Ceil(Len(line), cap)
                first == CHOOSE i \in SlicesOfLine(n) : \A j \in SlicesOfLine(n) : i <= j
            IN  /\ SlicesOfLine(n) # {}
                /\ SlicesOfLine(n) = first .. (first + count - 1)
                /\ \A k \in 0 .. (count - 1) :
                      /\ Segs[first + k].text = Slice(line, k * cap, (k + 1) * cap)
                      /\ k < count - 1 => Len(Segs[first + k].text) = cap
                /\ Len(Segs[first + count - 1].text) >= 1
                /\ \A i \in 1 .. NSegs :
                      (Segs[i].startLine <= n /\ n <= Segs[i].endLine) => i \in SlicesOfLine(n)
                /\ first > 1 => Segs[first - 1].endLine = n - 1
                /\ first + count - 1 < NSegs => Segs[first + count].startLine = n + 1

\* an oversize line between two other lines, cut into slices with the last
\* one shorter, a pending segment having been flushed in front of it
C17_Witness ==
    /\ job.returned /\ job.maxSegmentChars >= 1
    /\ \E n \in OversizeLines :
          /\ n > 1 /\ n < Len(SplitLines(job.normalized))
          /\ Cardinality(SlicesOfLine(n)) >= 2
          /\ Len(SplitLines(job.normalized)[n]) % job.maxSegmentChars # 0
          /\ Len(SplitLines(job.normalized)[n - 1]) >= 1

\* segment i is a slice of a line longer than maxSegmentChars
IsOversizeSlice(i) ==
    /\ job.maxSegmentChars >= 1
    /\ Segs[i].startLine = Segs[i].endLine
    /\ Segs[i].startLine \in OversizeLines
FirstLineOf(i) == SplitLines(job.normalized)[Segs[i].startLine]
LinesOf(i) == Segs[i].endLine - Segs[i].startLine + 1
\* appending the first line of segment i + 1 to segment i would break a limit
AppendWouldExceed(i) ==
    \/ LinesOf(i) = PerOf(job.linesPerSegment)
    \/ /\ job.maxSegmentChars >= 1
       /\ Len(Segs[i].text) + 1 + Len(FirstLineOf(i + 1)) > job.maxSegmentChars

\* C27: a segment is closed before a line only when appending the line
\* would exceed linesPerSegment or make the text longer than
\* maxSegmentChars: for consecutive segments i, i + 1 where segment i + 1
\* does not start with a slice of an oversize line, segment i has exactly
\* linesPerSegment lines or len(text_i) + 1 + len(first line of i + 1)
\* exceeds maxSegmentChars.
C27_Original ==
    (job.returned /\ job.linesPerSegment >= 1) =>
        \A i \in 1 .. (NSegs - 1) :
            ~IsOversizeSlice(i + 1) => AppendWouldExceed(i)

\* C28: segments[i].index = i; the first segment starts on line 1, the last
\* ends on the last line of the normalized text; startLine <= endLine; a
\* segment starts on the line after the one its predecessor ends on, except
\* that slices of one oversize line share its line number.
C28_LineNumbering ==
    job.returned =>
        /\ NSegs >= 1
        /\ \A i \in 1 .. NSegs :
              /\ Segs[i].index = i - 1
              /\ Segs[i].startLine <= Segs[i].endLine
        /\ Segs[1].startLine = 1
        /\ Segs[NSegs].endLine = Len(SplitLines(job.normalized))
        /\ \A i \in 1 .. (NSegs - 1) :
              IF IsOversizeSlice(i) /\ IsOversizeSlice(i + 1)
                 /\ Segs[i].endOffset = Segs[i + 1].startOffset
              THEN Segs[i + 1].startLine = Segs[i].startLine
              ELSE Segs[i + 1].startLine = Segs[i].endLine + 1

\* two oversize lines in a row, each cut into slices, after a first line
C28_Witness ==
    /\ job.returned
    /\ \E i \in 1 .. (NSegs - 1) :
          /\ IsOversizeSlice(i) /\ IsOversizeSlice(i + 1)
          /\ Segs[i + 1].startLine = Segs[i].startLine + 1
    /\ \E i \in 1 .. (NSegs - 1) :
          /\ IsOversizeSlice(i) /\ IsOversizeSlice(i + 1)
          /\ Segs[i + 1].startLine = Segs[i].startLine

(***************************************************************************)
(* normalizeText (segmenter.ts 3-13) and its two calls by the segmenter    *)
(* worker.                                                                 *)
(***************************************************************************)
MaxRawLen == 4        \* longest input of normalizeText
MaxNormTab == 2       \* largest tabWidth of normalizeText

BOM == "FEFF"         \* the code unit U+FEFF
CR == "\r"
TAB == "\t"
RawChars == {BOM, CR, NL, TAB, "a"}
RawTexts == SeqsUpTo(RawChars, MaxRawLen)
\* tabWidth (finite; -1 exercises the clamp to 0)
TabWidthInputs == -1 .. MaxNormTab

\* if (text.charCodeAt(0) === 0xFEFF) text = text.slice(1)
StripBOM(text) == IF text # <<>> /\ Head(text) = BOM THEN Tail(text) ELSE text

\* text.replace(/\r\n/g, '\n')
RECURSIVE ReplaceCRLF(_)
ReplaceCRLF(text) ==
    IF text = <<>> THEN <<>>
    ELSE IF Len(text) >= 2 /\ text[1] = CR /\ text[2] = NL
         THEN <<NL>> \o ReplaceCRLF(SubSeq(text, 3, Len(text)))
         ELSE <<Head(text)>> \o ReplaceCRLF(Tail(text))

\* text.replace(/\r/g, '\n')
RECURSIVE ReplaceCR(_)
ReplaceCR(text) ==
    IF text = <<>> THEN <<>>
    ELSE <<IF Head(text) = CR THEN NL ELSE Head(text)>> \o ReplaceCR(Tail(text))

\* text.replace(/\t/g, ' '.repeat(width)), or text.replace(/\t/g, '')
RECURSIVE ReplaceTabs(_, _)
ReplaceTabs(text, width) ==
    IF text = <<>> THEN <<>>
    ELSE (IF Head(text) = TAB THEN [i \in 1 .. width |-> SP] ELSE <<Head(text)>>)
         \o ReplaceTabs(Tail(text), width)

normalizeText(input, tabWidth) ==
    LET width == Max(0, tabWidth)
    IN  ReplaceTabs(ReplaceCR(ReplaceCRLF(StripBOM(input))), width)

NormInit ==
    /\ \E input \in RawTexts, tabWidth \in TabWidthInputs :
          job = [op |-> "normalizeText", calls |-> 0, input |-> input,
                 tabWidth |-> tabWidth, once |-> <<>>, twice |-> <<>>]
    /\ state = NoPage
    /\ call = NoPage
    /\ page = NoPage
    /\ pageLog = NoPage
    /\ app = NoPage

\* normalized = normalizeText(content, tabWidth)
NormalizeText ==
    /\ job.calls = 0
    /\ job' = [job EXCEPT !.calls = 1, !.once = normalizeText(job.input, job.tabWidth)]
    /\ UNCHANGED <<state, call, page, pageLog, app>>

\* normalizeText applied to its own result, with the same tab width
NormalizeAgain ==
    /\ job.calls = 1
    /\ job' = [job EXCEPT !.calls = 2, !.twice = normalizeText(job.once, job.tabWidth)]
    /\ UNCHANGED <<state, call, page, pageLog, app>>

NormNext ==
    \/ NormalizeText
    \/ NormalizeAgain

NormSpec == NormInit /\ [][NormNext]_vars

\* C18: normalizeText is idempotent for every tab width: applying it to its
\* own result returns that result, whatever the input begins with.
C18_Original ==
    job.calls = 2 => job.twice = job.once

\* C18, as far as the code goes: normalizeText is idempotent on every input
\* whose normalized form does not begin with U+FEFF.
C18_IdempotentUnlessBOMRemains ==
    (job.calls = 2 /\ StripBOM(job.once) = job.once) => job.twice = job.once

(***************************************************************************)
(* The comment lexer (core/commentRanges.ts, src/unnamed/part_003 118-343) *)
(* A lexer run is the record of its loop variables: i, state, escaped,     *)
(* start and ranges.                                                       *)
(***************************************************************************)
MaxLexLen == 6        \* longest text given to the comment lexer

BSL == "\\"
SQ == "'"
DQ == "\""
BQ == "backtick"     \* the template-literal quote, U+0060
CLikeChars == {"/", "*", SQ, DQ, BQ, BSL, NL, "a"}
PythonChars == {"#", SQ, DQ, BSL, NL, "a"}

\* the extensions of C_LIKE_EXTS the model draws from
C_LIKE_EXTS == {"c", "ts"}
FileExts == {"ts", "py", "md"}

detectCommentMode(ext) ==
    IF ext = "py" THEN "python"
    ELSE IF ext \in C_LIKE_EXTS THEN "c-like" ELSE "none"

LexStart == [i |-> 0, state |-> "code", escaped |-> FALSE, start |-> -1, ranges |-> <<>>]

\* text[i + 1], or '' past the end
NextChar(text, i) == IF i + 1 < Len(text) THEN At(text, i + 1) ELSE ""

\* startsWithAt(needle, at)
startsWithAt(text, needle, at) == Slice(text, at, at + Len(needle)) = needle

\* state === 'lineComment' (both lexers)
LineCommentStep(text, st) ==
    IF At(text, st.i) = NL
    THEN [st EXCEPT !.ranges = Append(@, [start |-> st.start, end |-> st.i]),
                    !.start = -1, !.state = "code"]
    ELSE st

\* state === 'blockComment'
BlockCommentStep(text, st) ==
    IF At(text, st.i) = "*" /\ NextChar(text, st.i) = "/"
    THEN [st EXCEPT !.i = st.i + 1,
                    !.ranges = Append(@, [start |-> st.start, end |-> st.i + 2]),
                    !.start = -1, !.state = "code"]
    ELSE st

\* the quote character that ends a quoted state
ClosingQuote(quoted) ==
    CASE quoted = "singleQuote" -> SQ
      [] quoted = "doubleQuote" -> DQ
      [] quoted = "template" -> BQ

\* state === 'singleQuote' || 'doubleQuote' || 'template' (both lexers)
QuotedStep_NoEscape(text, st) ==
    IF At(text, st.i) = ClosingQuote(st.state) THEN [st EXCEPT !.state = "code"] ELSE st

QuotedStep(text, st) ==
    IF st.escaped THEN [st EXCEPT !.escaped = FALSE]
    ELSE IF At(text, st.i) = BSL THEN [st EXCEPT !.escaped = TRUE]
    ELSE IF At(text, st.i) = ClosingQuote(st.state) THEN [st EXCEPT !.state = "code"]
    ELSE st

\* mutant: the '*' of the block opener is read again as part of a closer
CLikeCodeStep_OpenerNotSkipped(text, st) ==
    LET ch == At(text, st.i)
        next == NextChar(text, st.i)
    IN  IF ch = "/" /\ next = "/"
        THEN [st EXCEPT !.start = st.i, !.state = "lineComment", !.i = st.i + 1]
        ELSE IF ch = "/" /\ next = "*"
        THEN [st EXCEPT !.start = st.i, !.state = "blockComment"]
        ELSE IF ch = SQ THEN [st EXCEPT !.state = "singleQuote", !.escaped = FALSE]
        ELSE IF ch = DQ THEN [st EXCEPT !.state = "doubleQuote", !.escaped = FALSE]
        ELSE IF ch = BQ THEN [st EXCEPT !.state = "template", !.escaped = FALSE]
        ELSE st

\* state === 'code' of parseCLikeCommentRanges
CLikeCodeStep(text, st) ==
    LET ch == At(text, st.i)
        next == NextChar(text, st.i)
    IN  IF ch = "/" /\ next = "/"
        THEN [st EXCEPT !.start = st.i, !.state = "lineComment", !.i = st.i + 1]
        ELSE IF ch = "/" /\ next = "*"
        THEN [st EXCEPT !.start = st.i, !.state = "blockComment", !.i = st.i + 1]
        ELSE IF ch = SQ THEN [st EXCEPT !.state = "singleQuote", !.escaped = FALSE]
        ELSE IF ch = DQ THEN [st EXCEPT !.state = "doubleQuote", !.escaped = FALSE]
        ELSE IF ch = BQ THEN [st EXCEPT !.state = "template", !.escaped = FALSE]
        ELSE st

\* one iteration of the loop of parseCLikeCommentRanges, without its i += 1
CLikeStep(text, st) ==
    CASE st.state = "lineComment" -> LineCommentStep(text, st)
      [] st.state = "blockComment" -> BlockCommentStep(text, st)
      [] st.state \in {"singleQuote", "doubleQuote", "template"} -> QuotedStep(text, st)
      [] OTHER -> CLikeCodeStep(text, st)

RECURSIVE CLikeLoop(_, _)
CLikeLoop(text, st) ==
    IF st.i >= Len(text) THEN st
    ELSE CLikeLoop(text, [CLikeStep(text, st) EXCEPT !.i = @ + 1])

\* after the loop: a comment still open runs to the end of the text
FlushOpenComment_PastEnd(text, st) ==
    IF st.state \in {"lineComment", "blockComment", "tripleSingle", "tripleDouble"}
       /\ st.start >= 0
    THEN Append(st.ranges, [start |-> st.start, end |-> Len(text) + 1])
    ELSE st.ranges

FlushOpenComment(text, st) ==
    IF st.state \in {"lineComment", "blockComment", "tripleSingle", "tripleDouble"}
       /\ st.start >= 0
    THEN Append(st.ranges, [start |-> st.start, end |-> Len(text)])
    ELSE st.ranges

parseCLikeCommentRanges(text) == FlushOpenComment(text, CLikeLoop(text, LexStart))

\* state === 'tripleSingle' / 'tripleDouble', closed by needle
TripleStep(text, st, needle) ==
    IF startsWithAt(text, needle, st.i)
    THEN [st EXCEPT !.i = st.i + 2,
                    !.ranges = Append(@, [start |-> st.start, end |-> st.i + 3]),
                    !.start = -1, !.state = "code"]
    ELSE st

\* state === 'code' of parsePythonCommentRanges
PythonCodeStep(text, st) ==
    LET ch == At(text, st.i)
    IN  IF startsWithAt(text, <<SQ, SQ, SQ>>, st.i)
        THEN [st EXCEPT !.start = st.i, !.state = "tripleSingle", !.i = st.i + 2]
        ELSE IF startsWithAt(text, <<DQ, DQ, DQ>>, st.i)
        THEN [st EXCEPT !.start = st.i, !.state = "tripleDouble", !.i = st.i + 2]
        ELSE IF ch = "#" THEN [st EXCEPT !.start = st.i, !.state = "lineComment"]
        ELSE IF ch = SQ THEN [st EXCEPT !.state = "singleQuote", !.escaped = FALSE]
        ELSE IF ch = DQ THEN [st EXCEPT !.state = "doubleQuote", !.escaped = FALSE]
        ELSE st

\* one iteration of the loop of parsePythonCommentRanges, without its i += 1
PythonStep(text, st) ==
    CASE st.state = "lineComment" -> LineCommentStep(text, st)
      [] st.state = "tripleSingle" -> TripleStep(text, st, <<SQ, SQ, SQ>>)
      [] st.state = "tripleDouble" -> TripleStep(text, st, <<DQ, DQ, DQ>>)
      [] st.state \in {"singleQuote", "doubleQuote"} -> QuotedStep(text, st)
      [] OTHER -> PythonCodeStep(text, st)

RECURSIVE PythonLoop(_, _)
PythonLoop(text, st) ==
    IF st.i >= Len(text) THEN st
    ELSE PythonLoop(text, [PythonStep(text, st) EXCEPT !.i = @ + 1])

parsePythonCommentRanges(text) == FlushOpenComment(text, PythonLoop(text, LexStart))

\* parseCommentRangesForFile(text, fileName), fileName given by its extension
parseCommentRangesForFile(text, ext) ==
    LET mode == detectCommentMode(ext)
    IN  IF mode = "none" THEN <<>>
        ELSE IF mode = "python" THEN parsePythonCommentRanges(text)
        ELSE parseCLikeCommentRanges(text)

\* the texts drawn for a file: short ones when no lexer runs on it
LexTexts(ext) ==
    CASE detectCommentMode(ext) = "python" -> SeqsUpTo(PythonChars, MaxLexLen)
      [] detectCommentMode(ext) = "c-like" -> SeqsUpTo(CLikeChars, MaxLexLen)
      [] OTHER -> SeqsUpTo(CLikeChars \cup PythonChars, Min(MaxLexLen, 2))

ParseInit ==
    /\ \E ext \in FileExts :
         \E text \in LexTexts(ext) :
            job = [op |-> "parseCommentRangesForFile", returned |-> FALSE,
                   text |-> text, ext |-> ext, ranges |-> <<>>]
    /\ state = NoPage
    /\ call = NoPage
    /\ page = NoPage
    /\ pageLog = NoPage
    /\ app = NoPage

ParseCommentRanges ==
    /\ ~job.returned
    /\ job' = [job EXCEPT !.returned = TRUE,
                          !.ranges = parseCommentRangesForFile(job.text, job.ext)]
    /\ UNCHANGED <<state, call, page, pageLog, app>>

ParseNext == ParseCommentRanges

ParseSpec == ParseInit /\ [][ParseNext]_vars

(***************************************************************************)
(* Vocabulary of the comment lexer claims.                                 *)
(***************************************************************************)
LexMode == detectCommentMode(job.ext)
NRanges == Len(job.ranges)
\* the text at offset at begins with a comment opener of the mode
OpenerAt(text, mode, at) ==
    IF mode = "python"
    THEN \/ startsWithAt(text, <<"#">>, at)
         \/ startsWithAt(text, <<SQ, SQ, SQ>>, at)
         \/ startsWithAt(text, <<DQ, DQ, DQ>>, at)
    ELSE \/ startsWithAt(text, <<"/", "/">>, at)
         \/ startsWithAt(text, <<"/", "*">>, at)

\* C19: in both lexer modes the ranges come in source order, do not overlap,
\* satisfy 0 <= start < end <= len(text), and the text at each start is a
\* comment opener of the mode.
C19_RangesOrderedAtOpeners ==
    job.returned =>
        /\ \A k \in 1 .. NRanges :
              /\ 0 <= job.ranges[k].start
              /\ job.ranges[k].start < job.ranges[k].end
              /\ job.ranges[k].end <= Len(job.text)
              /\ OpenerAt(job.text, LexMode, job.ranges[k].start)
        /\ \A k \in 1 .. (NRanges - 1) : job.ranges[k].end <= job.ranges[k + 1].start

\* two comments were found, the second one still open at the end of the text
C19_Witness ==
    /\ job.returned
    /\ LexMode \in {"c-like", "python"}
    /\ NRanges = 2
    /\ job.ranges[1].end < job.ranges[2].start
    /\ job.ranges[2].end = Len(job.text)

\* the quote characters that open a string literal in the mode
StringQuotes(mode) == IF mode = "python" THEN {SQ, DQ} ELSE {SQ, DQ, BQ}
\* the body of a string literal quoted by q: escape pairs (a backslash and
\* any character) and characters other than the backslash and q
RECURSIVE StringBody(_, _)
StringBody(body, q) ==
    \/ body = <<>>
    \/ Head(body) = BSL /\ Len(body) >= 2 /\ StringBody(Tail(Tail(body)), q)
    \/ Head(body) \notin {BSL, q} /\ StringBody(Tail(body), q)
\* characters that are code without any lexical role
PlainCode(text) == \A k \in 1 .. Len(text) : text[k] \in {"a", NL}
\* text[open] .. text[close] (offsets) is a string literal that follows
\* plain code; in Python the opening quote must not begin a triple quote
StringLiteralAt(text, mode, open, close) ==
    /\ 0 <= open /\ open < close /\ close < Len(text)
    /\ At(text, open) \in StringQuotes(mode)
    /\ At(text, close) = At(text, open)
    /\ StringBody(Slice(text, open + 1, close), At(text, open))
    /\ PlainCode(Slice(text, 0, open))
    /\ mode = "python" =>
          ~startsWithAt(text, <<At(text, open), At(text, open), At(text, open)>>, open)
ShiftRanges(ranges, by) ==
    [k \in 1 .. Len(ranges) |-> [start |-> ranges[k].start + by, end |-> ranges[k].end + by]]
HasOpener(text, mode) == \E at \in 0 .. (Len(text) - 1) : OpenerAt(text, mode, at)

\* C20: a string literal hides what it contains: whatever the literal holds
\* (comment openers, escaped quotes, other quote characters, line breaks),
\* no range starts before its closing quote, and the ranges of the text are
\* those of the text after the closing quote.
C20_StringsHideOpeners ==
    (job.returned /\ LexMode \in {"c-like", "python"}) =>
        \A open \in 0 .. (Len(job.text) - 1), close \in 0 .. (Len(job.text) - 1) :
            StringLiteralAt(job.text, LexMode, open, close) =>
                job.ranges = ShiftRanges(
                    parseCommentRangesForFile(Slice(job.text, close + 1, Len(job.text)), job.ext),
                    close + 1)

\* a string literal that holds an escaped quote and a comment opener, with
\* a comment right after it
C20_Witness ==
    /\ job.returned
    /\ LexMode \in {"c-like", "python"}
    /\ \E close \in 0 .. (Len(job.text) - 1) :
          /\ StringLiteralAt(job.text, LexMode, 0, close)
          /\ startsWithAt(job.text, <<BSL, At(job.text, 0)>>, 1)
          /\ HasOpener(Slice(job.text, 1, close), LexMode)
          /\ NRanges = 1
          /\ job.ranges[1].start = close + 1

\* the first offset at or after from where the text begins with needle, or
\* len(text) + 1 when there is none
FirstOccurrence(text, needle, from) ==
    LET hits == {at \in from .. (Len(text) - 1) : startsWithAt(text, needle, at)}
    IN  IF hits = {} THEN Len(text) + 1
        ELSE CHOOSE at \in hits : \A other \in hits : at <= other
\* where a comment that opens at start ends: at the terminator found first
\* after the opener (past it, unless it is the newline of a line comment),
\* or at len(text)
CommentEnd(text, start, openerLen, terminator, included) ==
    LET at == FirstOccurrence(text, terminator, start + openerLen)
    IN  IF at > Len(text) THEN Len(text)
        ELSE IF included THEN at + Len(terminator) ELSE at
ExactEnd(text, mode, start) ==
    IF mode = "python"
    THEN IF startsWithAt(text, <<SQ, SQ, SQ>>, start)
         THEN CommentEnd(text, start, 3, <<SQ, SQ, SQ>>, TRUE)
         ELSE IF startsWithAt(text, <<DQ, DQ, DQ>>, start)
         THEN CommentEnd(text, start, 3, <<DQ, DQ, DQ>>, TRUE)
         ELSE CommentEnd(text, start, 1, <<NL>>, FALSE)
    ELSE IF startsWithAt(text, <<"/", "*">>, start)
         THEN CommentEnd(text, start, 2, <<"*", "/">>, TRUE)
         ELSE CommentEnd(text, start, 2, <<NL>>, FALSE)

\* C30: a line comment ends at the offset of the newline that terminates it,
\* a block comment just past the first '*/' after its two-character opener,
\* a Python triple-quoted range just past the next triple of the same quote
\* after its opener, and a comment still open at the end of the text ends at
\* len(text).
C30_ExactCommentEnds ==
    job.returned =>
        \A k \in 1 .. NRanges :
            job.ranges[k].end = ExactEnd(job.text, LexMode, job.ranges[k].start)

\* the block comment '/*/' was not closed by its own '*/' but by the next
\* one
C30_Witness ==
    /\ job.returned /\ LexMode = "c-like"
    /\ NRanges >= 1
    /\ job.ranges[1].start = 0
    /\ startsWithAt(job.text, <<"/", "*", "/">>, 0)
    /\ startsWithAt(job.text, <<"*", "/">>, 3)
    /\ job.ranges[1].end = 5

(***************************************************************************)
(* mergeRanges(ranges, maxLen) of core/skipRanges: clamp, drop empty, sort *)
(* by (start, end), fold overlapping or touching ranges.  Coordinates are  *)
(* whole offsets, on which Math.floor changes nothing.                     *)
(***************************************************************************)
MaxMergeLen == 2
MaxRanges == 2

MergeCoords(maxLen) == -1 .. (maxLen + 1)
MergeInputs(maxLen) ==
    SeqsUpTo([start : MergeCoords(maxLen), end : MergeCoords(maxLen)], MaxRanges)

\* the map callback
TrimRange(r, maxLen) ==
    [start |-> Max(0, Min(maxLen, r.start)), end |-> Max(0, Min(maxLen, r.end))]

\* the sort comparator: (a.start - b.start) || (a.end - b.end)
CompareRanges(a, b) ==
    IF a.start - b.start # 0 THEN a.start - b.start ELSE a.end - b.end

RECURSIVE InsertByStartEnd(_, _)
InsertByStartEnd(sorted, r) ==
    IF sorted = <<>> THEN <<r>>
    ELSE IF CompareRanges(r, Head(sorted)) < 0 THEN <<r>> \o sorted
    ELSE <<Head(sorted)>> \o InsertByStartEnd(Tail(sorted), r)

RECURSIVE SortByStartEnd(_)
SortByStartEnd(rs) ==
    IF rs = <<>> THEN <<>>
    ELSE InsertByStartEnd(SortByStartEnd(SubSeq(rs, 1, Len(rs) - 1)), rs[Len(rs)])

\* mutant: a range that only touches the current one is kept apart
RECURSIVE MergeFold_TouchingKept(_, _, _, _)
MergeFold_TouchingKept(trimmed, i, current, merged) ==
    IF i > Len(trimmed) THEN Append(merged, current)
    ELSE LET next == trimmed[i]
         IN  IF next.start < current.end
             THEN MergeFold_TouchingKept(trimmed, i + 1,
                      [start |-> current.start, end |-> Max(current.end, next.end)],
                      merged)
             ELSE MergeFold_TouchingKept(trimmed, i + 1, next, Append(merged, current))

\* the for loop over trimmed[1 ..], and the final push
RECURSIVE MergeFold(_, _, _, _)
MergeFold(trimmed, i, current, merged) ==
    IF i > Len(trimmed) THEN Append(merged, current)
    ELSE LET next == trimmed[i]
         IN  IF next.start <= current.end
             THEN MergeFold(trimmed, i + 1,
                      [start |-> current.start, end |-> Max(current.end, next.end)],
                      merged)
             ELSE MergeFold(trimmed, i + 1, next, Append(merged, current))

mergeRanges(ranges, maxLen) ==
    IF Len(ranges) = 0 THEN <<>>
    ELSE LET mapped == [k \in 1 .. Len(ranges) |-> TrimRange(ranges[k], maxLen)]
             trimmed == SortByStartEnd(SelectSeq(mapped, LAMBDA r : r.end > r.start))
         IN  IF Len(trimmed) <= 1 THEN trimmed
             ELSE MergeFold(trimmed, 2, trimmed[1], <<>>)

\* the same ranges in another order
Reorderings(ranges) ==
    LET idx == 1 .. Len(ranges)
    IN  {[k \in idx |-> ranges[p[k]]] : p \in {q \in [idx -> idx] : \A a, b \in idx : a # b => q[a] # q[b]}}

MergeInit ==
    /\ \E maxLen \in 0 .. MaxMergeLen :
        \E ranges \in MergeInputs(maxLen) :
            job = [op |-> "input", ranges |-> ranges, maxLen |-> maxLen,
                   out |-> <<>>, reordered |-> <<>>, second |-> <<>>]
    /\ state = NoPage
    /\ call = NoPage
    /\ page = NoPage
    /\ pageLog = NoPage
    /\ app = NoPage

\* mergeRanges(ranges, maxLen)
MergeRanges ==
    /\ job.op = "input"
    /\ job' = [job EXCEPT !.op = "merged", !.out = mergeRanges(job.ranges, job.maxLen)]
    /\ UNCHANGED <<state, call, page, pageLog, app>>

\* mergeRanges(mergeRanges(ranges, maxLen), maxLen)
MergeAgain ==
    /\ job.op = "merged"
    /\ job' = [job EXCEPT !.op = "again", !.second = mergeRanges(job.out, job.maxLen)]
    /\ UNCHANGED <<state, call, page, pageLog, app>>

\* mergeRanges of the same ranges given in another order
MergeReordered ==
    /\ job.op = "merged"
    /\ \E other \in Reorderings(job.ranges) :
        job' = [job EXCEPT !.op = "reordered", !.reordered = other,
                           !.second = mergeRanges(other, job.maxLen)]
    /\ UNCHANGED <<state, call, page, pageLog, app>>

\* the engine's own copy, normalizeRanges(ranges, max)
NormalizeRanges ==
    /\ job.op = "merged"
    /\ job' = [job EXCEPT !.op = "engine", !.second = normalizeRanges(job.ranges, job.maxLen)]
    /\ UNCHANGED <<state, call, page, pageLog, app>>

MergeNext == MergeRanges \/ MergeAgain \/ MergeReordered \/ NormalizeRanges

MergeSpec == MergeInit /\ [][MergeNext]_vars

\* ---- vocabulary ----
Merged == job.op # "input"
\* position p lies in one of the ranges
CoveredBy(ranges, p) ==
    \E k \in 1 .. Len(ranges) : ranges[k].start <= p /\ p < ranges[k].end
\* position p lies in one of the input ranges once cut to [0, maxLen]
CoveredByClampedInput(p) ==
    /\ 0 <= p /\ p < job.maxLen
    /\ \E k \in 1 .. Len(job.ranges) : job.ranges[k].start <= p /\ p < job.ranges[k].end

MaxBreakLen == 4

BreakTexts == SeqsUpTo({"a", NL}, MaxBreakLen)
\* skipRanges: none, one or two ranges, in any order, possibly overlapping,
\* empty, reversed or out of bounds
BreakCoords(text) == -1 .. (Len(text) + 1)
BreakRanges(text) == [start : BreakCoords(text), end : BreakCoords(text)]
BreakSkipLists(text) ==
    {<<>>} \cup {<<r>> : r \in BreakRanges(text)}
           \cup {<<r, q>> : r \in BreakRanges(text), q \in BreakRanges(text)}

\* skipMask: true at the offsets the merged ranges cover
SkipMask(text, ranges) ==
    [k \in 1 .. Len(text) |->
        \E n \in 1 .. Len(ranges) : ranges[n].start <= k - 1 /\ k - 1 < ranges[n].end]

\* the inner loop: some offset of [lineStart, i) is not masked
HasPrintable(skipMask, lineStart, i) ==
    \E j \in lineStart .. (i - 1) : ~At(skipMask, j)

\* mutant: lineStart is not moved past the newline
RECURSIVE LineBreakLoop_LineStartKept(_, _, _, _, _)
LineBreakLoop_LineStartKept(text, skipMask, i, lineStart, out) ==
    IF i >= Len(text) THEN out
    ELSE IF At(text, i) # NL
    THEN LineBreakLoop_LineStartKept(text, skipMask, i + 1, lineStart, out)
    ELSE LineBreakLoop_LineStartKept(text, skipMask, i + 1, lineStart,
             IF ~HasPrintable(skipMask, lineStart, i)
             THEN Append(out, [start |-> i, end |-> i + 1])
             ELSE out)

\* the outer loop over the offsets of the text
RECURSIVE LineBreakLoop(_, _, _, _, _)
LineBreakLoop(text, skipMask, i, lineStart, out) ==
    IF i >= Len(text) THEN out
    ELSE IF At(text, i) # NL
    THEN LineBreakLoop(text, skipMask, i + 1, lineStart, out)
    ELSE LineBreakLoop(text, skipMask, i + 1, i + 1,
             IF ~HasPrintable(skipMask, lineStart, i)
             THEN Append(out, [start |-> i, end |-> i + 1])
             ELSE out)

computeSkippableLineBreakRanges(text, skipRanges) ==
    IF Len(text) = 0 THEN <<>>
    ELSE LET ranges == mergeRanges(skipRanges, Len(text))
         IN  LineBreakLoop(text, SkipMask(text, ranges), 0, 0, <<>>)

BreakInit ==
    /\ \E text \in BreakTexts :
        \E skip \in BreakSkipLists(text) :
            job = [op |-> "computeSkippableLineBreakRanges", returned |-> FALSE,
                   text |-> text, skip |-> skip, ranges |-> <<>>]
    /\ state = NoPage
    /\ call = NoPage
    /\ page = NoPage
    /\ pageLog = NoPage
    /\ app = NoPage

ComputeSkippableLineBreakRanges ==
    /\ ~job.returned
    /\ job' = [job EXCEPT !.returned = TRUE,
                          !.ranges = computeSkippableLineBreakRanges(job.text, job.skip)]
    /\ UNCHANGED <<state, call, page, pageLog, app>>

BreakNext == ComputeSkippableLineBreakRanges

BreakSpec == BreakInit /\ [][BreakNext]_vars

\* ---- vocabulary ----
\* the offset at which the line holding offset i starts
RECURSIVE StartOfLine(_, _)
StartOfLine(text, i) ==
    IF i = 0 \/ At(text, i - 1) = NL THEN i ELSE StartOfLine(text, i - 1)
\* every offset of the line before its newline at i lies in a skip range
LineFullySkipped(i) ==
    \A j \in StartOfLine(job.text, i) .. (i - 1) : CoveredBy(job.skip, j)
Returned(i) ==
    \E k \in 1 .. Len(job.ranges) : job.ranges[k] = [start |-> i, end |-> i + 1]

\* C31: computeSkippableLineBreakRanges returns {i, i + 1} for the newline at
\* offset i exactly when every offset of its line before the newline is
\* covered by the skip ranges, and returns nothing else.
C31_SkippableLineBreaks ==
    job.returned =>
        /\ \A i \in 0 .. (Len(job.text) - 1) :
              Returned(i) <=> (At(job.text, i) = NL /\ LineFullySkipped(i))
        /\ \A k \in 1 .. Len(job.ranges) :
              /\ job.ranges[k].end = job.ranges[k].start + 1
              /\ job.ranges[k].start \in 0 .. (Len(job.text) - 1)

\* the newline of a line whose only character is skipped is returned, the
\* newline of a line with an unskipped character is not
C31_Witness ==
    /\ job.returned
    /\ \E i \in 1 .. (Len(job.text) - 1) :
          /\ At(job.text, i) = NL /\ At(job.text, i - 1) # NL
          /\ Returned(i)
    /\ \E i \in 1 .. (Len(job.text) - 1) :
          /\ At(job.text, i) = NL /\ ~Returned(i)

(***************************************************************************)
(* The segmenter worker's onmessage handler (workers/segmenter.worker.ts): *)
(* normalize, lex the comments, split, then give each segment the comment  *)
(* ranges that intersect it, in one forward pass.                          *)
(***************************************************************************)
MaxWorkerLen == 5

\* content of the request, by file type
WorkerTexts(ext) ==
    IF detectCommentMode(ext) = "python"
    THEN SeqsUpTo({"#", NL, "a"}, MaxWorkerLen)
    ELSE SeqsUpTo({"/", "*", NL, "a", BOM}, MaxWorkerLen)
WorkerExts == {"ts", "py"}
WorkerTabWidths == {2}
\* linesPerSegment and maxSegmentChars (0: no character limit)
WorkerLinesPer == {1, 2}
WorkerSegChars == {0, 2}

splitByLinesWithOffsets(input, linesPerSegment, tabWidth, maxSegmentChars) ==
    splitNormalizedByLinesWithOffsets(normalizeText(input, tabWidth),
                                      linesPerSegment, maxSegmentChars)

\* the first while loop: pass the ranges that end at or before startOffset
RECURSIVE SkipEndedRanges(_, _, _)
SkipEndedRanges(globalCommentRanges, rangeIndex, startOffset) ==
    IF rangeIndex < Len(globalCommentRanges)
       /\ At(globalCommentRanges, rangeIndex).end <= startOffset
    THEN SkipEndedRanges(globalCommentRanges, rangeIndex + 1, startOffset)
    ELSE rangeIndex

\* the local range of r in the segment, pushed when it is not empty
PushIntersection(commentRanges, r, startOffset, endOffset) ==
    LET s == Max(r.start, startOffset)
        e == Min(r.end, endOffset)
    IN  IF e > s
        THEN Append(commentRanges, [start |-> s - startOffset, end |-> e - startOffset])
        ELSE commentRanges

\* mutant: the pass moves on from a range that runs past the segment
RECURSIVE IntersectLoop_AlwaysAdvance(_, _, _, _, _)
IntersectLoop_AlwaysAdvance(globalCommentRanges, j, startOffset, endOffset, commentRanges) ==
    IF j < Len(globalCommentRanges) /\ At(globalCommentRanges, j).start < endOffset
    THEN LET r == At(globalCommentRanges, j)
             pushed == PushIntersection(commentRanges, r, startOffset, endOffset)
         IN  IntersectLoop_AlwaysAdvance(globalCommentRanges, j + 1, startOffset,
                                         endOffset, pushed)
    ELSE [j |-> j, commentRanges |-> commentRanges]

\* the second while loop
RECURSIVE IntersectLoop(_, _, _, _, _)
IntersectLoop(globalCommentRanges, j, startOffset, endOffset, commentRanges) ==
    IF j < Len(globalCommentRanges) /\ At(globalCommentRanges, j).start < endOffset
    THEN LET r == At(globalCommentRanges, j)
             pushed == PushIntersection(commentRanges, r, startOffset, endOffset)
         IN  IF r.end <= endOffset
             THEN IntersectLoop(globalCommentRanges, j + 1, startOffset, endOffset, pushed)
             ELSE [j |-> j, commentRanges |-> pushed]
    ELSE [j |-> j, commentRanges |-> commentRanges]

\* the map callback, applied to the segments from index k on; commentRanges
\* undefined is Null
RECURSIVE MapSegments(_, _, _, _, _)
MapSegments(segmentsWithOffsets, k, globalCommentRanges, rangeIndex, includeComments) ==
    IF k > Len(segmentsWithOffsets) THEN <<>>
    ELSE LET seg == segmentsWithOffsets[k]
             rest == [index |-> seg.index, startLine |-> seg.startLine,
                      endLine |-> seg.endLine, text |-> seg.text]
         IN  IF ~includeComments /\ Len(globalCommentRanges) > 0
             THEN LET from == SkipEndedRanges(globalCommentRanges, rangeIndex, seg.startOffset)
                      loop == IntersectLoop(globalCommentRanges, from, seg.startOffset,
                                            seg.endOffset, Null)
                  IN  <<rest @@ [commentRanges |-> loop.commentRanges]>>
                      \o MapSegments(segmentsWithOffsets, k + 1, globalCommentRanges,
                                     loop.j, includeComments)
             ELSE <<rest @@ [commentRanges |-> Null]>>
                  \o MapSegments(segmentsWithOffsets, k + 1, globalCommentRanges,
                                 rangeIndex, includeComments)

WorkerInit ==
    /\ \E ext \in WorkerExts :
        \E content \in WorkerTexts(ext), linesPerSegment \in WorkerLinesPer,
           tabWidth \in WorkerTabWidths, maxSegmentChars \in WorkerSegChars,
           includeComments \in BOOLEAN :
            job = [op |-> "onmessage", returned |-> FALSE,
                   content |-> content, ext |-> ext,
                   linesPerSegment |-> linesPerSegment, tabWidth |-> tabWidth,
                   maxSegmentChars |-> maxSegmentChars,
                   includeComments |-> includeComments,
                   globalCommentRanges |-> <<>>, segmentsWithOffsets |-> <<>>,
                   segments |-> <<>>]
    /\ state = NoPage
    /\ call = NoPage
    /\ page = NoPage
    /\ pageLog = NoPage
    /\ app = NoPage

\* ctx.onmessage: the response's segments (with the two intermediate lists)
WorkerOnMessage ==
    /\ ~job.returned
    /\ LET normalized == normalizeText(job.content, job.tabWidth)
           globalCommentRanges ==
               IF job.includeComments THEN <<>>
               ELSE parseCommentRangesForFile(normalized, job.ext)
           segmentsWithOffsets ==
               splitByLinesWithOffsets(normalized, job.linesPerSegment, 0,
                                       job.maxSegmentChars)
       IN  job' = [job EXCEPT
                      !.returned = TRUE,
                      !.globalCommentRanges = globalCommentRanges,
                      !.segmentsWithOffsets = segmentsWithOffsets,
                      !.segments = MapSegments(segmentsWithOffsets, 1, globalCommentRanges,
                                               0, job.includeComments)]
    /\ UNCHANGED <<state, call, page, pageLog, app>>

WorkerNext == WorkerOnMessage

WorkerSpec == WorkerInit /\ [][WorkerNext]_vars

\* ---- vocabulary ----
\* global comment range g meets segment k
Meets(g, k) ==
    Max(job.globalCommentRanges[g].start, job.segmentsWithOffsets[k].startOffset)
        < Min(job.globalCommentRanges[g].end, job.segmentsWithOffsets[k].endOffset)
\* the part of global range g inside segment k, in the segment's offsets
LocalPart(g, k) ==
    [start |-> Max(job.globalCommentRanges[g].start, job.segmentsWithOffsets[k].startOffset)
                   - job.segmentsWithOffsets[k].startOffset,
     end |-> Min(job.globalCommentRanges[g].end, job.segmentsWithOffsets[k].endOffset)
                   - job.segmentsWithOffsets[k].startOffset]
\* the local parts of the global ranges that meet segment k, in order
RECURSIVE LocalPartsFrom(_, _)
LocalPartsFrom(g, k) ==
    IF g > Len(job.globalCommentRanges) THEN <<>>
    ELSE (IF Meets(g, k) THEN <<LocalPart(g, k)>> ELSE <<>>) \o LocalPartsFrom(g + 1, k)

\* C32: every segment of the response carries exactly the non-empty
\* intersections of the global comment ranges with [startOffset, endOffset),
\* in order and translated by -startOffset, each within the segment's text.
C32_SegmentCommentRanges ==
    job.returned =>
        /\ Len(job.segments) = Len(job.segmentsWithOffsets)
        /\ \A k \in 1 .. Len(job.segments) :
              /\ job.segments[k].commentRanges = LocalPartsFrom(1, k)
              /\ \A n \in 1 .. Len(job.segments[k].commentRanges) :
                    /\ 0 <= job.segments[k].commentRanges[n].start
                    /\ job.segments[k].commentRanges[n].start
                           < job.segments[k].commentRanges[n].end
                    /\ job.segments[k].commentRanges[n].end <= Len(job.segments[k].text)

\* one comment appears in two segments, with an empty segment that carries
\* no range between them
C32_Witness ==
    /\ job.returned
    /\ \E g \in 1 .. Len(job.globalCommentRanges) :
        \E k, e, m \in 1 .. Len(job.segments) :
            /\ k < e /\ e < m
            /\ Meets(g, k) /\ Meets(g, m)
            /\ job.segments[e].text = <<>>
            /\ job.segments[e].commentRanges = Null
            /\ Len(job.segments[m].commentRanges) = 1

(***************************************************************************)
(* Part 4: the App component and its segmenter worker (App.tsx, bundled in *)
(* src/src/storage/attemptRepo.ts 70-241). app holds the route, the ref    *)
(* segmentRequestIdRef, the file captured by the worker.onmessage handler  *)
(* installed last, and the requests posted to the worker and not answered  *)
(* yet (the worker answers them in order, one response each). Request ids  *)
(* (crypto.randomUUID()) are the numbers 1, 2, ... in order of issue.      *)
(* Kept for the claims: issued, the number of requests issued; cancelled,  *)
(* the ids pending when cancelLoading ran; log, the last event.            *)
(***************************************************************************)
MaxRequests == 3      \* startSession calls
MaxFiles == 2         \* files the user opens

NoRequest == 0        \* segmentRequestIdRef.current === null
NoFile == 0
Files == 1 .. MaxFiles
RouteOf(name, file) == [name |-> name, file |-> file]
HomeRoute == RouteOf("home", NoFile)

\* worker.onmessage: payload.id !== segmentRequestIdRef.current returns
AcceptsPayload_AnyId(payloadId, requestIdRef) == TRUE

AcceptsPayload(payloadId, requestIdRef) == payloadId = requestIdRef

AppInit ==
    /\ app = [route |-> HomeRoute, segmentRequestIdRef |-> NoRequest,
              handlerFile |-> NoFile, posted |-> <<>>,
              issued |-> 0, cancelled |-> {},
              log |-> [event |-> "mount", id |-> NoRequest]]
    /\ state = NoPage
    /\ call = NoPage
    /\ page = NoPage
    /\ pageLog = NoPage
    /\ job = NoJob

\* startSession(file): a new request id, the loading route, the handlers of
\* this call installed on the worker, the request posted
startSession(a, file) ==
    LET requestId == a.issued + 1
    IN  [a EXCEPT !.segmentRequestIdRef = requestId,
                  !.route = RouteOf("loading", file),
                  !.handlerFile = file,
                  !.posted = Append(@, requestId),
                  !.issued = requestId,
                  !.log = [event |-> "startSession", id |-> requestId]]

\* startSession(file): from Home's onOpen, onFileOpened on any route, or
\* onUpdateSettings of the typing page
StartSession ==
    /\ app.issued < MaxRequests
    /\ \E file \in Files : app' = startSession(app, file)
    /\ UNCHANGED <<state, call, page, pageLog, job>>

\* cancelLoading(), the Loading page's onCancel
CancelLoading ==
    /\ app.route.name = "loading"
    /\ app' = [app EXCEPT !.segmentRequestIdRef = NoRequest,
                          !.route = HomeRoute,
                          !.cancelled = @ \cup ({app.segmentRequestIdRef} \ {NoRequest}),
                          !.log = [event |-> "cancelLoading", id |-> app.segmentRequestIdRef]]
    /\ UNCHANGED <<state, call, page, pageLog, job>>

\* worker.onmessage (the handler installed last) on the response to the
\* oldest request, which carries segments or an error
onmessage(a, isError) ==
    LET payloadId == Head(a.posted)
        logged == [event |-> IF isError THEN "errorResponse" ELSE "segmentsResponse",
                   id |-> payloadId]
    IN  IF ~AcceptsPayload(payloadId, a.segmentRequestIdRef)
        THEN [a EXCEPT !.posted = Tail(@), !.log = logged]
        ELSE [a EXCEPT !.posted = Tail(@), !.log = logged,
                       !.segmentRequestIdRef = NoRequest,
                       !.route = IF isError THEN HomeRoute
                                 ELSE RouteOf("typing", a.handlerFile)]

\* the worker answers its oldest request with segments or with an error,
\* and the worker.onmessage handler installed last receives the response
WorkerResponse ==
    /\ app.posted # <<>>
    /\ \E isError \in BOOLEAN : app' = onmessage(app, isError)
    /\ UNCHANGED <<state, call, page, pageLog, job>>

\* worker.onerror (the handler installed last, whose requestId is the id
\* issued last): the pending id is cleared if it is that id, and the route
\* becomes home
onerror(a, failedId) ==
    [a EXCEPT !.segmentRequestIdRef = IF @ = a.issued THEN NoRequest ELSE @,
              !.route = HomeRoute,
              !.log = [event |-> "workerError", id |-> failedId]]

\* the worker raises an error event while it handles its oldest request,
\* which then gets no response
WorkerError ==
    /\ app.posted # <<>>
    /\ app' = [onerror(app, Head(app.posted)) EXCEPT !.posted = Tail(@)]
    /\ UNCHANGED <<state, call, page, pageLog, job>>

\* onBack, onHome: back to the home page
GoHome ==
    /\ app.route.name \in {"typing", "summary", "analytics"}
    /\ app' = [app EXCEPT !.route = HomeRoute, !.log = [event |-> "navigate", id |-> NoRequest]]
    /\ UNCHANGED <<state, call, page, pageLog, job>>

\* onAnalytics of the home and summary pages
GoAnalytics ==
    /\ app.route.name \in {"home", "summary"}
    /\ app' = [app EXCEPT !.route = RouteOf("analytics", NoFile),
                          !.log = [event |-> "navigate", id |-> NoRequest]]
    /\ UNCHANGED <<state, call, page, pageLog, job>>

\* onComplete of the typing page
ShowSummary ==
    /\ app.route.name = "typing"
    /\ app' = [app EXCEPT !.route = RouteOf("summary", app.route.file),
                          !.log = [event |-> "navigate", id |-> NoRequest]]
    /\ UNCHANGED <<state, call, page, pageLog, job>>

\* onRetry, onPrev, onNext of the summary page
BackToTyping ==
    /\ app.route.name = "summary"
    /\ app' = [app EXCEPT !.route = RouteOf("typing", app.route.file),
                          !.log = [event |-> "navigate", id |-> NoRequest]]
    /\ UNCHANGED <<state, call, page, pageLog, job>>

AppNext ==
    \/ StartSession
    \/ CancelLoading
    \/ WorkerResponse
    \/ WorkerError
    \/ GoHome
    \/ GoAnalytics
    \/ ShowSummary
    \/ BackToTyping

AppSpec == AppInit /\ [][AppNext]_vars

(***************************************************************************)
(* Vocabulary of the App claims.                                           *)
(***************************************************************************)
ResponseArrived == app.log.event \in {"segmentsResponse", "errorResponse"}
\* the request is not the one issued last, or cancelLoading ran on it
Superseded(a, id) == id # a.issued
Cancelled(a, id) == id \in a.cancelled

\* C21: a response moves the route to 'typing' only if it answers the
\* request issued last and that request was not cancelled; a response to a
\* superseded or cancelled request leaves the route and the pending request
\* id as they are.
C21_OnlyLatestRequestOpensTyping ==
    [][ResponseArrived' =>
          /\ (app'.route # app.route /\ app'.route.name = "typing") =>
                /\ ~Superseded(app, app'.log.id)
                /\ ~Cancelled(app, app'.log.id)
                /\ app'.log.event = "segmentsResponse"
          /\ (Superseded(app, app'.log.id) \/ Cancelled(app, app'.log.id)) =>
                /\ app'.route = app.route
                /\ app'.segmentRequestIdRef = app.segmentRequestIdRef
       ]_vars

\* the response to a superseded request arrived while a later request was
\* pending, after an earlier request had been cancelled
C21_Witness ==
    /\ app.log.event = "segmentsResponse"
    /\ Superseded(app, app.log.id)
    /\ app.cancelled # {}
    /\ app.route.name = "loading"
    /\ app.segmentRequestIdRef = app.issued

\* ---- worker.onerror ----
ErrorFired == app.log.event = "workerError"
\* a request is pending: its id is in segmentRequestIdRef and the loading
\* page is shown
Pending(a) == a.segmentRequestIdRef # NoRequest /\ a.route.name = "loading"

\* C37: a worker error event changes the route only for the request that is
\* pending: with no pending request (cancelled, or the user on another
\* route) the route stays as it is, and an error that is not about the
\* pending request leaves the pending id in place, so that its response is
\* not discarded.
C37_Original ==
    [][ErrorFired' =>
          /\ ~Pending(app) => app'.route = app.route
          /\ (Pending(app) /\ app'.log.id # app.segmentRequestIdRef) =>
                app'.segmentRequestIdRef = app.segmentRequestIdRef
      ]_vars

(***************************************************************************)
(* Part 5: the JSON attempt repository (storage/jsonAttemptRepo.ts) behind *)
(* the 'app:saveAttempt' and 'app:listAttempts' handlers of electron/main. *)
(* job holds the attempts file, the shared temp file filePath + '.tmp',    *)
(* and the add calls in progress: every await is a step, and the calls     *)
(* interleave at their awaits. A file is absent, holds the text of a JSON   *)
(* value, or holds a broken text (a write or copy in progress).            *)
(* fs.writeFile and fs.copyFile give no guarantee of atomicity: each either *)
(* completes in one step or leaves the file broken until its second step.  *)
(* Kept for the claims: started, the number of add calls; overlapped, an   *)
(* add call started or list ran while another call was in progress;        *)
(* fulfilled, the ids whose add promise resolved; skipped, the number of   *)
(* add calls that returned without writing; log, the last event.           *)
(***************************************************************************)
MaxCalls == 2         \* add calls in progress at the same time
MaxAdds == 3          \* add calls in all
MaxAttemptIds == 2
MaxEndAt == 1

RepoAttempts == [id : 1 .. MaxAttemptIds, endAtMs : 0 .. MaxEndAt]
CallSlots == 1 .. MaxCalls

Absent == [kind |-> "absent"]
Broken == [kind |-> "broken"]
\* the text JSON.stringify gives for a value, and a legacy file holding a
\* bare array
TextOf(value) == [kind |-> "text", value |-> value]
StoredV1(attempts) == [tag |-> "object", attempts |-> attempts]
BareArray(attempts) == [tag |-> "array", attempts |-> attempts]

coerceStored(parsed) ==
    IF parsed.tag = "array" THEN StoredV1(parsed.attempts)
    ELSE IF parsed.tag = "object" THEN StoredV1(parsed.attempts)
    ELSE StoredV1(<<>>)

\* readJson: ENOENT and a text JSON.parse rejects both give no attempts
readJson(file) ==
    IF file.kind = "text" THEN coerceStored(file.value) ELSE StoredV1(<<>>)

\* mutant: an attempt is a duplicate only if the whole record is stored
HasId_WholeAttempt(attempts, attempt) ==
    \E k \in 1 .. Len(attempts) : attempts[k] = attempt

\* stored.attempts.some((a) => a.id === attempt.id)
HasId(attempts, attempt) ==
    \E k \in 1 .. Len(attempts) : attempts[k].id = attempt.id

\* attempts.slice().sort((a, b) => b.endAtMs - a.endAtMs), a stable sort
RECURSIVE InsertByEndDesc(_, _)
InsertByEndDesc(sorted, a) ==
    IF sorted = <<>> THEN <<a>>
    ELSE IF Head(sorted).endAtMs - a.endAtMs < 0 THEN <<a>> \o sorted
    ELSE <<Head(sorted)>> \o InsertByEndDesc(Tail(sorted), a)

RECURSIVE SortByEndDesc(_)
SortByEndDesc(attempts) ==
    IF attempts = <<>> THEN <<>>
    ELSE InsertByEndDesc(SortByEndDesc(SubSeq(attempts, 1, Len(attempts) - 1)),
                         attempts[Len(attempts)])

IdleCall == [pc |-> "idle"]
Active(c) == job.calls[c].pc # "idle"
Quiet == \A c \in CallSlots : ~Active(c)
RepoLog(event, attempt, result) == [event |-> event, attempt |-> attempt, result |-> result]

RepoInit ==
    /\ \E file \in {Absent} \cup {TextOf(BareArray(<<a>>)) : a \in RepoAttempts} :
          job = [file |-> file, tmp |-> Absent,
                 calls |-> [c \in CallSlots |-> IdleCall],
                 started |-> 0, overlapped |-> FALSE, fulfilled |-> {}, skipped |-> 0,
                 log |-> RepoLog("create", <<>>, <<>>)]
    /\ state = NoPage
    /\ call = NoPage
    /\ page = NoPage
    /\ pageLog = NoPage
    /\ app = NoPage

\* ipcMain.handle('app:saveAttempt'): add(attempt) is called
AddStart ==
    /\ job.started < MaxAdds
    /\ \E c \in CallSlots, attempt \in RepoAttempts :
          /\ ~Active(c)
          /\ job' = [job EXCEPT
                        !.calls[c] = [pc |-> "readJson", attempt |-> attempt,
                                      before |-> job.file],
                        !.started = @ + 1,
                        !.overlapped = @ \/ ~Quiet,
                        !.log = RepoLog("addCalled", attempt, <<>>)]
    /\ UNCHANGED <<state, call, page, pageLog, app>>

\* stored = await readJson(filePath); return if the id is stored; push
AddRead ==
    /\ \E c \in CallSlots :
          /\ job.calls[c].pc = "readJson"
          /\ LET me == job.calls[c]
                 stored == readJson(job.file)
             IN  IF HasId(stored.attempts, me.attempt)
                 THEN job' = [job EXCEPT
                                 !.calls[c] = IdleCall,
                                 !.fulfilled = @ \cup {me.attempt.id},
                                 !.skipped = @ + 1,
                                 !.log = RepoLog("addSkipped", me.attempt, me.before)]
                 ELSE job' = [job EXCEPT
                                 !.calls[c] = [pc |-> "writeFile", attempt |-> me.attempt,
                                               data |-> StoredV1(Append(stored.attempts,
                                                                        me.attempt))],
                                 !.log = RepoLog("addRead", me.attempt, <<>>)]
    /\ UNCHANGED <<state, call, page, pageLog, app>>

\* writeJsonAtomic: await fs.writeFile(tmp, raw), in one step or begun
AddWriteFile ==
    /\ \E c \in CallSlots, atOnce \in BOOLEAN :
          /\ job.calls[c].pc = "writeFile"
          /\ job' = [job EXCEPT
                        !.tmp = IF atOnce THEN TextOf(job.calls[c].data) ELSE Broken,
                        !.calls[c].pc = IF atOnce THEN "copyFile" ELSE "writingFile",
                        !.log = RepoLog("writeFile", job.calls[c].attempt, <<>>)]
    /\ UNCHANGED <<state, call, page, pageLog, app>>

\* fs.writeFile(tmp, raw) completes
AddWriteFileEnd ==
    /\ \E c \in CallSlots :
          /\ job.calls[c].pc = "writingFile"
          /\ job' = [job EXCEPT
                        !.tmp = TextOf(job.calls[c].data),
                        !.calls[c].pc = "copyFile",
                        !.log = RepoLog("writeFile", job.calls[c].attempt, <<>>)]
    /\ UNCHANGED <<state, call, page, pageLog, app>>

\* await fs.copyFile(tmp, filePath): rejects when tmp is gone; copies what
\* tmp holds, in one step or begun
AddCopyFile ==
    /\ \E c \in CallSlots, atOnce \in BOOLEAN :
          /\ job.calls[c].pc = "copyFile"
          /\ IF job.tmp = Absent
             THEN job' = [job EXCEPT
                             !.calls[c] = IdleCall,
                             !.log = RepoLog("addRejected", job.calls[c].attempt, <<>>)]
             ELSE job' = [job EXCEPT
                             !.file = IF atOnce THEN job.tmp ELSE Broken,
                             !.calls[c] = [pc |-> IF atOnce THEN "rm" ELSE "copyingFile",
                                           attempt |-> job.calls[c].attempt,
                                           source |-> job.tmp],
                             !.log = RepoLog("copyFile", job.calls[c].attempt, <<>>)]
    /\ UNCHANGED <<state, call, page, pageLog, app>>

\* fs.copyFile(tmp, filePath) completes
AddCopyFileEnd ==
    /\ \E c \in CallSlots :
          /\ job.calls[c].pc = "copyingFile"
          /\ job' = [job EXCEPT
                        !.file = job.calls[c].source,
                        !.calls[c].pc = "rm",
                        !.log = RepoLog("copyFile", job.calls[c].attempt, <<>>)]
    /\ UNCHANGED <<state, call, page, pageLog, app>>

\* await fs.rm(tmp, { force: true }); the add promise resolves
AddRm ==
    /\ \E c \in CallSlots :
          /\ job.calls[c].pc = "rm"
          /\ job' = [job EXCEPT
                        !.tmp = Absent,
                        !.calls[c] = IdleCall,
                        !.fulfilled = @ \cup {job.calls[c].attempt.id},
                        !.log = RepoLog("addResolved", job.calls[c].attempt, <<>>)]
    /\ UNCHANGED <<state, call, page, pageLog, app>>

\* ipcMain.handle('app:listAttempts'): list()
List ==
    /\ job' = [job EXCEPT
                  !.overlapped = @ \/ ~Quiet,
                  !.log = RepoLog("list", <<>>,
                                  SortByEndDesc(readJson(job.file).attempts))]
    /\ UNCHANGED <<state, call, page, pageLog, app>>

RepoNext ==
    \/ AddStart
    \/ AddRead
    \/ AddWriteFile
    \/ AddWriteFileEnd
    \/ AddCopyFile
    \/ AddCopyFileEnd
    \/ AddRm
    \/ List

RepoSpec == RepoInit /\ [][RepoNext]_vars

\* ---- vocabulary ----
StoredAttempts == readJson(job.file).attempts
StoredIds == {StoredAttempts[k].id : k \in 1 .. Len(StoredAttempts)}
Listed == job.log.event = "list"

\* C34: the attempts file never holds a partially written document.
C34_Original == job.file.kind # "broken"

\* C35: with sequential calls, an add whose id is stored writes nothing and
\* leaves the file as it was; the file holds at most one attempt per id and
\* every attempt whose add resolved; list returns the stored attempts
\* ordered by endAtMs descending.
C35_SequentialAddIdempotent ==
    ~job.overlapped =>
        /\ job.log.event = "addSkipped" =>
              /\ job.file = job.log.result
              /\ job.tmp = Absent
              /\ job.log.attempt.id \in StoredIds
        /\ Quiet =>
              /\ job.file.kind # "broken"
              /\ \A k, n \in 1 .. Len(StoredAttempts) :
                    StoredAttempts[k].id = StoredAttempts[n].id => k = n
              /\ job.fulfilled \subseteq StoredIds
        /\ (Listed /\ Quiet) =>
              /\ Len(job.log.result) = Len(StoredAttempts)
              /\ \A k \in 1 .. Len(StoredAttempts) :
                    \E n \in 1 .. Len(job.log.result) : job.log.result[n] = StoredAttempts[k]
              /\ \A k \in 1 .. (Len(job.log.result) - 1) :
                    job.log.result[k].endAtMs >= job.log.result[k + 1].endAtMs

\* after two adds that wrote and one that was skipped, all sequential, list
\* returned the two stored attempts in the reverse of their stored order
C35_Witness ==
    /\ ~job.overlapped /\ Listed /\ Quiet
    /\ job.skipped > 0
    /\ Len(StoredAttempts) = 2
    /\ StoredAttempts[1].endAtMs < StoredAttempts[2].endAtMs
    /\ job.log.result[1] = StoredAttempts[2]

\* C36: once overlapping add calls have all resolved, the file holds every
\* attempt whose add resolved: no update is lost.
C36_Original ==
    (job.overlapped /\ Quiet) => job.fulfilled \subseteq StoredIds

(***************************************************************************)
(* Part 6: settings updates on the typing page. app is the App component   *)
(* (its route, its settings state, the session of the typing route, the    *)
(* segmenter requests, and renders, the number of times it has rendered);  *)
(* page is the mounted Typing component with its refs, instance (the       *)
(* number of engines createTypingEngine has made for engineRef) and        *)
(* resetEngine (the identity of the resetEngine callback, given by the     *)
(* values of its dependencies at the last render); state is engineRef.     *)
(* A callback made by useCallback keeps its identity as long as its        *)
(* dependencies are the same; a function written inline in a render is a   *)
(* new one at every render, so its identity is the number of the render.   *)
(***************************************************************************)
MaxOpens == 1          \* files opened
MaxUpdates == 2        \* settings updates applied
MaxChanged == 1        \* settings one update changes
MaxSessionKeys == 2    \* keys and Backspaces per engine

SessionFiles ==
    {[fileName |-> "ts", content |-> <<SP, "a", SP, NL, "a">>],
     [fileName |-> "txt", content |-> <<SP, "a">>]}

\* the settings the dialog offers: two values of each
AllSettings ==
    [linesPerSegment : {1, 2}, tabWidth : {2, 4}, slackN : {0, 1},
     maxSegmentChars : {500, 501}, editorFontSize : {13, 14},
     textAlign : {"center", "left"}, includeComments : BOOLEAN,
     skipLeadingIndentation : BOOLEAN, trimTrailingWhitespace : BOOLEAN,
     autoSkipBlankLines : BOOLEAN, showDebugOverlay : BOOLEAN]

SettingNames == DOMAIN CHOOSE s \in AllSettings : TRUE

\* the settings App holds at start (loaded from localStorage)
LoadedSettings ==
    [linesPerSegment |-> 2, tabWidth |-> 2, slackN |-> 1, maxSegmentChars |-> 500,
     editorFontSize |-> 13, textAlign |-> "center", includeComments |-> TRUE,
     skipLeadingIndentation |-> TRUE, trimTrailingWhitespace |-> TRUE,
     autoSkipBlankLines |-> TRUE, showDebugOverlay |-> FALSE]

\* draftSettings when Apply is pressed: the session's settings, edited
DraftSettings(settings) ==
    {draft \in AllSettings :
        Cardinality({n \in SettingNames : draft[n] # settings[n]}) <= MaxChanged}

clampInt(value, min, max) == Min(max, Max(min, value))

normalizeTextAlign(value, fallback) ==
    IF value \in {"left", "center", "right"} THEN value ELSE fallback

normalizeTypingSettings(input) ==
    [linesPerSegment |-> clampInt(input.linesPerSegment, 1, 5000),
     tabWidth |-> clampInt(input.tabWidth, 0, 16),
     slackN |-> clampInt(input.slackN, 0, 50),
     maxSegmentChars |-> clampInt(input.maxSegmentChars, 500, 500000),
     editorFontSize |-> clampInt(input.editorFontSize, 10, 32),
     textAlign |-> normalizeTextAlign(input.textAlign, "center"),
     includeComments |-> input.includeComments,
     skipLeadingIndentation |-> input.skipLeadingIndentation,
     trimTrailingWhitespace |-> input.trimTrailingWhitespace,
     autoSkipBlankLines |-> input.autoSkipBlankLines,
     showDebugOverlay |-> input.showDebugOverlay]

defaultIncludeCommentsForFile(fileName) ==
    ~(fileName \in {"c", "h", "cpp", "cc", "hpp", "java", "js", "ts"})

\* ---- core/skipRanges.ts ----
RECURSIVE IndentEnd(_, _, _)
IndentEnd(text, j, lineEnd) ==
    IF j < lineEnd /\ At(text, j) = SP THEN IndentEnd(text, j + 1, lineEnd) ELSE j

RECURSIVE LeadingIndentationLoop(_, _, _, _)
LeadingIndentationLoop(text, i, lineStart, ranges) ==
    IF i > Len(text) THEN ranges
    ELSE IF ~(i = Len(text) \/ At(text, i) = NL)
    THEN LeadingIndentationLoop(text, i + 1, lineStart, ranges)
    ELSE LET j == IndentEnd(text, lineStart, i)
         IN  LeadingIndentationLoop(text, i + 1, i + 1,
                 IF j > lineStart THEN Append(ranges, [start |-> lineStart, end |-> j])
                 ELSE ranges)

computeLeadingIndentationRanges(text) == LeadingIndentationLoop(text, 0, 0, <<>>)

RECURSIVE TrailingStart(_, _, _)
TrailingStart(text, j, lineStart) ==
    IF j > lineStart /\ (At(text, j - 1) = SP \/ At(text, j - 1) = TAB)
    THEN TrailingStart(text, j - 1, lineStart) ELSE j

RECURSIVE TrailingWhitespaceLoop(_, _, _, _)
TrailingWhitespaceLoop(text, i, lineStart, ranges) ==
    IF i > Len(text) THEN ranges
    ELSE IF ~(i = Len(text) \/ At(text, i) = NL)
    THEN TrailingWhitespaceLoop(text, i + 1, lineStart, ranges)
    ELSE LET j == TrailingStart(text, i, lineStart)
         IN  TrailingWhitespaceLoop(text, i + 1, i + 1,
                 IF j < i THEN Append(ranges, [start |-> j, end |-> i]) ELSE ranges)

computeTrailingWhitespaceRanges(text) == TrailingWhitespaceLoop(text, 0, 0, <<>>)

\* text.lastIndexOf('\n', from)
RECURSIVE LastNewlineFrom(_, _)
LastNewlineFrom(text, from) ==
    IF from < 0 THEN -1
    ELSE IF from < Len(text) /\ At(text, from) = NL THEN from
    ELSE LastNewlineFrom(text, from - 1)

RECURSIVE PaddingStart(_, _, _)
PaddingStart(text, j, lineStart) ==
    IF j > lineStart /\ At(text, j - 1) = SP THEN PaddingStart(text, j - 1, lineStart)
    ELSE j

RECURSIVE PreCommentPaddingLoop(_, _, _, _)
PreCommentPaddingLoop(text, commentRanges, k, ranges) ==
    IF k > Len(commentRanges) THEN ranges
    ELSE LET commentStart == Max(0, Min(Len(text), commentRanges[k].start))
             prevNewline == LastNewlineFrom(text, commentStart - 1)
             lineStart == IF prevNewline >= 0 THEN prevNewline + 1 ELSE 0
             j == PaddingStart(text, commentStart, lineStart)
         IN  IF commentStart <= 0
             THEN PreCommentPaddingLoop(text, commentRanges, k + 1, ranges)
             ELSE PreCommentPaddingLoop(text, commentRanges, k + 1,
                      IF j < commentStart
                      THEN Append(ranges, [start |-> j, end |-> commentStart])
                      ELSE ranges)

computePreCommentPaddingRanges(text, commentRanges) ==
    IF Len(commentRanges) = 0 THEN <<>>
    ELSE PreCommentPaddingLoop(text, commentRanges, 1, <<>>)

\* ---- pages/Typing.tsx ----
\* segment = segments[min(segmentIndex, ...)] with segmentIndex 0
SegmentOf(session) == session.segments[1]

buildSkipInfo(segment, settings) ==
    LET segmentText == segment.text
        maxLen == Len(segmentText)
        rawCommentRanges == IF settings.includeComments THEN <<>> ELSE segment.commentRanges
        preCommentPaddingRanges ==
            IF settings.includeComments THEN <<>>
            ELSE computePreCommentPaddingRanges(segmentText, rawCommentRanges)
        leadingIndentRanges ==
            IF settings.skipLeadingIndentation
            THEN computeLeadingIndentationRanges(segmentText) ELSE <<>>
        trailingWhitespaceRanges ==
            IF settings.trimTrailingWhitespace
            THEN computeTrailingWhitespaceRanges(segmentText) ELSE <<>>
        skipSpaceRanges ==
            mergeRanges(leadingIndentRanges \o preCommentPaddingRanges
                            \o trailingWhitespaceRanges, maxLen)
        commentRanges == mergeRanges(rawCommentRanges, maxLen)
        baseSkipRanges ==
            IF settings.includeComments THEN skipSpaceRanges
            ELSE mergeRanges(commentRanges \o skipSpaceRanges, maxLen)
        lineBreakSkipRanges ==
            IF settings.includeComments THEN <<>>
            ELSE computeSkippableLineBreakRanges(segmentText, baseSkipRanges)
    IN  [commentRanges |-> commentRanges,
         skipSpaceRanges |-> skipSpaceRanges,
         engineSkipRanges |->
             IF Len(lineBreakSkipRanges) = 0 THEN baseSkipRanges
             ELSE mergeRanges(baseSkipRanges \o lineBreakSkipRanges, maxLen)]

\* the identity of each callback: the values of its useCallback dependencies
buildSkipInfoIdentity(session) ==
    <<SegmentOf(session).commentRanges, SegmentOf(session).text,
      session.settings.includeComments, session.settings.skipLeadingIndentation,
      session.settings.trimTrailingWhitespace>>

applyStaticDecorationsIdentity(session) ==
    <<buildSkipInfoIdentity(session), session.settings.includeComments>>

\* onComplete is written inline in App's render
maybeCompleteIdentity(session, onComplete) ==
    <<session.file.fileName, onComplete, SegmentOf(session),
      session.settings.linesPerSegment, session.settings.slackN,
      session.settings.tabWidth>>

scheduleCommitIdentity(session, onComplete) == <<maybeCompleteIdentity(session, onComplete)>>

resetEngineIdentity(session, onComplete) ==
    <<applyStaticDecorationsIdentity(session), buildSkipInfoIdentity(session),
      scheduleCommitIdentity(session, onComplete), SegmentOf(session).text,
      session.settings.includeComments, session.settings.slackN>>

\* resetEngine(): the page's refs and the new engine
resetEngine(pg, session) ==
    [page |-> scheduleCommit([pg EXCEPT !.completedRef = FALSE, !.commitRaf = FALSE,
                                        !.startAtRef = Null, !.instance = @ + 1]),
     engine |-> createTypingEngine(SegmentOf(session).text, session.settings.slackN,
                    pg.autoSkipRef,
                    buildSkipInfo(SegmentOf(session), session.settings).engineSkipRanges,
                    ~session.settings.includeComments)]

\* ---- workers/segmenter.worker.ts: the segments of the response ----
SegmentsOf(file, settings) ==
    LET normalized == normalizeText(file.content, settings.tabWidth)
        globalCommentRanges ==
            IF settings.includeComments THEN <<>>
            ELSE parseCommentRangesForFile(normalized, file.fileName)
    IN  MapSegments(splitByLinesWithOffsets(normalized, settings.linesPerSegment, 0,
                                            settings.maxSegmentChars),
                    1, globalCommentRanges, 0, settings.includeComments)

\* ---- App.tsx ----
NoSession == [none |-> TRUE]
Unmounted ==
    [mounted |-> FALSE, completedRef |-> FALSE, commitRaf |-> FALSE, startAtRef |-> Null,
     autoSkipRef |-> TRUE, instance |-> 0, resetEngine |-> <<>>]

\* startSession(file, overrideSettings): overrideSettings is Null or <<settings>>
startSessionWith(a, file, overrideSettings) ==
    LET sessionSettings ==
            IF overrideSettings # Null THEN overrideSettings[1]
            ELSE [a.settings EXCEPT
                     !.includeComments = defaultIncludeCommentsForFile(file.fileName)]
        requestId == a.issued + 1
    IN  [a EXCEPT !.segmentRequestIdRef = requestId,
                  !.route = "loading",
                  !.session = NoSession,
                  !.handler = [file |-> file, sessionSettings |-> sessionSettings],
                  !.posted = Append(@, [id |-> requestId, file |-> file,
                                        settings |-> sessionSettings]),
                  !.issued = requestId,
                  !.renders = @ + 1]

\* the onUpdateSettings prop of Typing
onUpdateSettings(a, next) ==
    LET prevSettings == a.session.settings
        requiresResegment ==
            \/ prevSettings.linesPerSegment # next.linesPerSegment
            \/ prevSettings.tabWidth # next.tabWidth
            \/ prevSettings.maxSegmentChars # next.maxSegmentChars
            \/ prevSettings.includeComments # next.includeComments
        set == [a EXCEPT !.settings = next, !.updates = @ + 1]
    IN  IF requiresResegment THEN startSessionWith(set, a.session.file, <<next>>)
        ELSE [set EXCEPT !.session.settings = next, !.renders = @ + 1]

SessionInit ==
    /\ app = [route |-> "home", settings |-> LoadedSettings, session |-> NoSession,
              segmentRequestIdRef |-> NoRequest, handler |-> NoSession, posted |-> <<>>,
              issued |-> 0, opened |-> 0, updates |-> 0, renders |-> 1]
    /\ page = Unmounted
    /\ state = NoPage
    /\ call = NoPage
    /\ pageLog = NoPage
    /\ job = NoJob

\* Home's onOpen or window.api.onFileOpened: startSession(file)
SessionOpenFile ==
    /\ app.opened < MaxOpens
    /\ \E file \in SessionFiles :
          app' = [startSessionWith(app, file, Null) EXCEPT !.opened = @ + 1]
    /\ page' = [page EXCEPT !.mounted = FALSE, !.commitRaf = FALSE]
    /\ UNCHANGED <<state, call, pageLog, job>>

\* the worker answers its oldest request; worker.onmessage; when the route
\* becomes typing, Typing mounts and its effects run
SessionSegments ==
    /\ app.posted # <<>>
    /\ LET request == Head(app.posted)
       IN  IF ~AcceptsPayload(request.id, app.segmentRequestIdRef)
           THEN /\ app' = [app EXCEPT !.posted = Tail(@)]
                /\ UNCHANGED <<state, page>>
           ELSE LET session == [file |-> app.handler.file,
                                segments |-> SegmentsOf(request.file, request.settings),
                                settings |-> app.handler.sessionSettings]
                    onComplete == app.renders + 1
                    mounted == [page EXCEPT
                                   !.mounted = TRUE,
                                   !.autoSkipRef = session.settings.autoSkipBlankLines,
                                   !.resetEngine = resetEngineIdentity(session, onComplete)]
                    reset == resetEngine(mounted, session)
                IN  /\ app' = [app EXCEPT !.posted = Tail(@),
                                          !.segmentRequestIdRef = NoRequest,
                                          !.route = "typing",
                                          !.session = session,
                                          !.renders = onComplete]
                    /\ page' = reset.page
                    /\ state' = reset.engine
    /\ UNCHANGED <<call, pageLog, job>>

\* applySettings() of the settings dialog: onUpdateSettings(next), then the
\* render it causes and the effects of Typing whose dependencies changed
ApplySettings ==
    /\ app.route = "typing"
    /\ app.updates < MaxUpdates
    /\ \E draft \in DraftSettings(app.session.settings) :
          LET next == normalizeTypingSettings(draft)
              updated == onUpdateSettings(app, next)
          IN  /\ app' = updated
              /\ IF updated.route # "typing"
                 THEN /\ page' = [page EXCEPT !.mounted = FALSE, !.commitRaf = FALSE]
                      /\ UNCHANGED state
                 ELSE LET autoSkip == next.autoSkipBlankLines
                          autoSkipChanged ==
                              autoSkip # app.session.settings.autoSkipBlankLines
                          pg == IF autoSkipChanged
                                THEN [page EXCEPT !.autoSkipRef = autoSkip] ELSE page
                          engine == IF autoSkipChanged
                                    THEN [state EXCEPT !.autoSkipBlankLines = autoSkip]
                                    ELSE state
                          identity == resetEngineIdentity(updated.session, updated.renders)
                          rendered == [pg EXCEPT !.resetEngine = identity]
                      IN  IF identity # page.resetEngine
                          THEN /\ page' = resetEngine(rendered, updated.session).page
                               /\ state' = resetEngine(rendered, updated.session).engine
                          ELSE /\ page' = rendered
                               /\ state' = engine
    /\ UNCHANGED <<call, pageLog, job>>

\* a key or committed character reaches the engine
SessionKey ==
    /\ app.route = "typing"
    /\ state.typedKeystrokes < MaxSessionKeys
    /\ ~isComplete(state)
    /\ \E ch \in KeyChars, now \in Times :
          /\ state' = handleKey(state, <<ch>>)
          /\ page' = scheduleCommit(ensureStarted(page, now))
    /\ UNCHANGED <<call, pageLog, job, app>>

\* handleKeyDown, e.key === 'Backspace'
SessionBackspace ==
    /\ app.route = "typing"
    /\ state.typedKeystrokes < MaxSessionKeys
    /\ ~isComplete(state)
    /\ state' = handleBackspace(state)
    /\ \E now \in Times : page' = scheduleCommit(ensureStarted(page, now))
    /\ UNCHANGED <<call, pageLog, job, app>>

\* the commit frame: maybeComplete(), and onComplete sets the summary route
SessionCommitFrame ==
    /\ app.route = "typing"
    /\ page.commitRaf
    /\ IF CallsOnComplete(page, state)
       THEN /\ app' = [app EXCEPT !.route = "summary", !.renders = @ + 1]
            /\ page' = [page EXCEPT !.mounted = FALSE, !.commitRaf = FALSE,
                                    !.completedRef = TRUE]
       ELSE /\ page' = [page EXCEPT !.commitRaf = FALSE]
            /\ UNCHANGED app
    /\ UNCHANGED <<state, call, pageLog, job>>

SessionNext ==
    \/ SessionOpenFile
    \/ SessionSegments
    \/ ApplySettings
    \/ SessionKey
    \/ SessionBackspace
    \/ SessionCommitFrame

SessionSpec == SessionInit /\ [][SessionNext]_vars

\* ---- vocabulary ----
RuntimeOnlySettings ==
    {"editorFontSize", "textAlign", "autoSkipBlankLines", "skipLeadingIndentation",
     "trimTrailingWhitespace", "showDebugOverlay"}
\* this step applies a settings update
SettingsUpdated == app'.updates = app.updates + 1
\* the update changes runtime-only settings and nothing else
RuntimeOnlyUpdate ==
    /\ \A n \in SettingNames \ RuntimeOnlySettings :
          app'.settings[n] = app.session.settings[n]
    /\ \E n \in RuntimeOnlySettings : app'.settings[n] # app.session.settings[n]
Progress(s) ==
    [cursor |-> s.cursor, marks |-> s.marks, typedKeystrokes |-> s.typedKeystrokes,
     incorrect |-> s.incorrect, collateral |-> s.collateral,
     backspaces |-> s.backspaces, correctChars |-> s.correctChars]

\* C33: a settings update that changes only runtime-only settings starts no
\* re-segmentation and keeps the engine instance and its progress.
C33_Original ==
    [][(SettingsUpdated /\ RuntimeOnlyUpdate) =>
          /\ app'.issued = app.issued
          /\ app'.route = "typing"
          /\ page'.instance = page.instance
          /\ Progress(state') = Progress(state)
      ]_vars

\* the part of C33 that holds: no re-segmentation is started
C33_NoResegment ==
    [][(SettingsUpdated /\ RuntimeOnlyUpdate) =>
          /\ app'.issued = app.issued
          /\ app'.route = "typing"
          /\ app'.session.segments = app.session.segments
      ]_vars

====
